---- MODULE Spec2Model ----
(***************************************************************************)
(* A model of the emaps client: the map layer manager (MapHelper), the     *)
(* election / census data cache (data.ts) and the quantile classification  *)
(* (getQuantiles), the label placement (PoleLabelPlacement) and the        *)
(* server's services (DataService, MapService).  Each part has its own     *)
(* specification over the shared                                           *)
(* variables; the variables of the other parts keep their initial value.   *)
(***************************************************************************)
EXTENDS Integers, Sequences, FiniteSets, Bags, TLC

VARIABLES
    layers,     \* MapHelper.layers: the registered layer objects, in order
    lay,        \* every layer object ever built by addLayer: id -> MapLayer
    hist,       \* the last MapHelper operation (for stating the claims)
    qValues,    \* getQuantiles: the caller's array (sorted in place by the call)
    qResult,    \* getQuantiles: the returned array
    qPc,        \* getQuantiles: "idle", "call" (about to be called) or "done"
    qLegend,    \* getLegend: what the call returned or that it threw, NoLegend before
    electionData,   \* data.ts electionData: <<electionId, geoId>> -> rows
    censusData,     \* data.ts censusData: geoId -> rows
    censusTraits,   \* data.ts censusTraits: traitId -> trait
    getStyle,       \* layer.getStyle of each layer object the loads are given
    inflight,       \* the loads suspended at an await: a bag of call records
    last,           \* the last step of the cache engine (for stating the claims)
    loaded,         \* the loads resolved since the last purge of their cache
    purged,         \* geoIds purged from censusData and not requested since
    track,          \* which of the history variables loaded, purged a specification keeps
    pPolygon,   \* findPosition: the polygon (its first path), <<>> when not called
    pCellSize,  \* findPosition: const cellSize
    pX,         \* findCandidate: x of the outer loop
    pY,         \* findCandidate: y of the inner loop
    pBest,      \* findPosition / findCandidate: bestCell
    pPc,        \* findPosition: "idle", "findCandidate", "refine" or "returned"
    request,    \* the server: the call a service is given
    response,   \* the server: what the call returned or threw, NoResponse before
    boundary,   \* Map.vue this.boundary: the featureId of the boundary, 0 for null
    mapTrait,   \* Map.vue this.trait: the selected trait, NoTrait for null
    tasks,      \* Map.vue: the selections suspended at a geometry fetch, a bag
    sync,       \* attachBoundsChangedHandlers of each map instance: its closure and its map
    pointer,    \* the map instance the pointer is over, 0 for none
    syncLast,   \* the last 'map-bounds-changed' event dispatched (for stating the claims)
    loading,    \* App.vue loading: the flag behind the "Loading..." banner
    mapLoads    \* the loadData calls of each Map between their two 'loading' emissions

layerVars == <<layers, lay, hist>>

quantVars == <<qValues, qResult, qPc, qLegend>>

dataCaches == <<electionData, censusData>>

cacheVars == <<electionData, censusData, censusTraits, getStyle, inflight, last, loaded, purged, track>>

poleVars == <<pPolygon, pCellSize, pX, pY, pBest, pPc>>

serverVars == <<request, response>>

mapVars == <<boundary, mapTrait, tasks>>

syncVars == <<sync, pointer, syncLast>>

appVars == <<loading, mapLoads>>

vars == <<layers, lay, hist, qValues, qResult, qPc, qLegend,
          electionData, censusData, censusTraits, getStyle, inflight, last, loaded, purged, track,
          pPolygon, pCellSize, pX, pY, pBest, pPc, request, response,
          boundary, mapTrait, tasks, sync, pointer, syncLast, loading, mapLoads>>

(***************************************************************************)
(* Bounds of the model.                                                    *)
(***************************************************************************)
MaxLayerObjs == 3
MaxLen == 4
MaxCalls == 2
MaxArea == 5
MaxZoom == 20

(***************************************************************************)
(* JavaScript values.  Numbers are counted in tenths (5 stands for 0.5), so *)
(* that the 0.1 of getQuantiles is the integer 1.  An array slot holds     *)
(* either a number, <<x>>, or undefined, <<>>.                             *)
(***************************************************************************)
Num(x) == <<x>>

Undefined == <<>>

IsNum(v) == Len(v) = 1

\* values[i] of a JavaScript array (0-based): undefined outside the array.
At(values, i) == IF i >= 0 /\ i < Len(values) THEN Num(values[i + 1]) ELSE Undefined

\* Math.round(a / b) for a >= 0, b > 0: halves round up.
RoundDiv(a, b) == (2 * a + b) \div (2 * b)

RECURSIVE InsertDesc(_, _)
InsertDesc(s, x) ==
    IF s = <<>> THEN <<x>>
    ELSE IF x >= Head(s) THEN <<x>> \o s
    ELSE <<Head(s)>> \o InsertDesc(Tail(s), x)

\* values.sort((a, b) => b - a)
RECURSIVE SortDesc(_)
SortDesc(s) == IF s = <<>> THEN <<>> ELSE InsertDesc(SortDesc(Tail(s)), Head(s))

(***************************************************************************)
(* MapHelper (layer manager)                                               *)
(***************************************************************************)
NoType == "undefined"

\* The (name, feature geometry types) pairs addLayer is called with: the boundary
\* outline (converted to line strings, or an empty collection) and two trait maps.
AddLayerInputs ==
    { <<"Boundary", <<"LineString">>>>,
      <<"Boundary", <<>>>>,
      <<"Map-1-1-7", <<"Polygon", "MultiPolygon">>>>,
      <<"Map-1-1-7", <<"Polygon", "Point">>>>,
      <<"Map-2-1-7", <<"MultiPolygon", "GeometryCollection">>>>,
      <<"Map-2-1-7", <<"Point", "MultiLineString">>>> }

Range(s) == {s[i] : i \in 1..Len(s)}

LayerObjs == DOMAIN lay

\* The layer type a GeoJSON geometry type maps to.
TypeOfGeometry(g) ==
    CASE g \in {"Polygon", "MultiPolygon"} -> "polygon"
      [] g \in {"LineString", "MultiLineString"} -> "polyline"
      [] g = "Point" -> "point"
      [] OTHER -> NoType

\* The type addLayer leaves on the layer: each supported feature overwrites it.
RECURSIVE LayerTypeAfter(_, _)
LayerTypeAfter(type, geoms) ==
    IF geoms = <<>> THEN type
    ELSE LayerTypeAfter(
            IF TypeOfGeometry(Head(geoms)) = NoType THEN type ELSE TypeOfGeometry(Head(geoms)),
            Tail(geoms))

\* feature.properties.id of the i-th feature of the collection addLayer is given
\* for the name: the features of map 1 are g1, g2, ..., those of map 2 g2, g3, ...
FeatureId(name, i) == "g" \o ToString(IF name = "Map-2-1-7" THEN i + 1 ELSE i)

\* Mutant: the id is pushed in the branches of the supported geometry types only.
RECURSIVE IdsAfter_supported(_, _, _, _)
IdsAfter_supported(ids, name, geoms, i) ==
    IF i > Len(geoms) THEN ids
    ELSE IdsAfter_supported(IF TypeOfGeometry(geoms[i]) = NoType THEN ids
                            ELSE Append(ids, FeatureId(name, i)), name, geoms, i + 1)

\* layer.ids after the feature loop of addLayer, from feature i on: the id is
\* pushed before the geometry type is looked at.
RECURSIVE IdsAfter(_, _, _, _)
IdsAfter(ids, name, geoms, i) ==
    IF i > Len(geoms) THEN ids
    ELSE IdsAfter(Append(ids, FeatureId(name, i)), name, geoms, i + 1)

findLayer(name) ==
    LET hits == {i \in 1..Len(layers) : lay[layers[i]].name = name}
    IN  IF hits = {} THEN 0
        ELSE layers[CHOOSE i \in hits : \A j \in hits : i <= j]

activeLayer ==
    LET hits == {i \in 1..Len(layers) : lay[layers[i]].visible /\ lay[layers[i]].type = "polygon"}
    IN  IF hits = {} THEN 0
        ELSE layers[CHOOSE i \in hits : \A j \in hits : i <= j]

\* hideLayer applied to the layer table l.
HideIn(l, o) == [l EXCEPT ![o].visible = FALSE, ![o].onMap = FALSE]

\* Mutant: showLayer hides no other layer.
OthersToHide_none(l, o) == {}

\* Mutant: the type test is inverted, so showLayer hides the other visible layers
\* that are not polygon layers.
OthersToHide_notPolygon(l, o) ==
    {p \in Range(layers) : l[p].type # "polygon" /\ l[p].visible /\ p # o}

\* The registered layers showLayer(o) hides first.
OthersToHide(l, o) ==
    {p \in Range(layers) : l[p].type = "polygon" /\ l[p].visible /\ p # o}

ShowIn(l, o) ==
    [p \in DOMAIN l |->
        IF p = o THEN [l[p] EXCEPT !.visible = TRUE, !.onMap = TRUE]
        ELSE IF p \in OthersToHide(l, o) THEN [l[p] EXCEPT !.visible = FALSE, !.onMap = FALSE]
        ELSE l[p]]

RemoveFrom(s, o) == SelectSeq(s, LAMBDA p : p # o)

hideLayer(o) ==
    /\ lay' = HideIn(lay, o)
    /\ hist' = [op |-> "hideLayer", layer |-> 0, hid |-> {}]
    /\ UNCHANGED layers

showLayer(o) ==
    /\ lay' = ShowIn(lay, o)
    /\ hist' = [op |-> "showLayer", layer |-> o, hid |-> OthersToHide(lay, o)]
    /\ UNCHANGED layers

hideAllLayers ==
    /\ lay' = [p \in DOMAIN lay |->
                IF p \in Range(layers) /\ lay[p].visible
                THEN [lay[p] EXCEPT !.visible = FALSE, !.onMap = FALSE]
                ELSE lay[p]]
    /\ hist' = [op |-> "hideAllLayers", layer |-> 0, hid |-> {}]
    /\ UNCHANGED layers

removeLayer(o) ==
    /\ lay' = HideIn(lay, o)
    /\ layers' = RemoveFrom(layers, o)
    /\ hist' = [op |-> "removeLayer", layer |-> o, hid |-> {}]

refreshLayer(o) ==
    /\ o \in LayerObjs
    /\ UNCHANGED <<layers, lay, hist>>

\* Mutant: a registered layer of the same name is left in place.
addLayer_keepOld(name, geoms) ==
    LET new == Cardinality(LayerObjs) + 1
        layer == [name |-> name, type |-> LayerTypeAfter(NoType, geoms),
                  ids |-> IdsAfter(<<>>, name, geoms, 1),
                  visible |-> FALSE, onMap |-> FALSE]
    IN  /\ Cardinality(LayerObjs) < MaxLayerObjs
        /\ lay' = [p \in LayerObjs \cup {new} |-> IF p = new THEN layer ELSE lay[p]]
        /\ layers' = Append(layers, new)
        /\ hist' = [op |-> "addLayer", layer |-> new, hid |-> {}]

addLayer(name, geoms) ==
    LET old == findLayer(name)
        new == Cardinality(LayerObjs) + 1
        hidden == IF old # 0 THEN HideIn(lay, old) ELSE lay
        kept == IF old # 0 THEN RemoveFrom(layers, old) ELSE layers
        layer == [name |-> name, type |-> LayerTypeAfter(NoType, geoms),
                  ids |-> IdsAfter(<<>>, name, geoms, 1),
                  visible |-> FALSE, onMap |-> FALSE]
    IN  /\ Cardinality(LayerObjs) < MaxLayerObjs
        /\ lay' = [p \in LayerObjs \cup {new} |-> IF p = new THEN layer ELSE hidden[p]]
        /\ layers' = Append(kept, new)
        /\ hist' = [op |-> "addLayer", layer |-> new, hid |-> {}]

InitLayers ==
    /\ layers = <<>>
    /\ lay = <<>>
    /\ hist = [op |-> "new", layer |-> 0, hid |-> {}]

LayersOnly == UNCHANGED <<quantVars, cacheVars, poleVars, serverVars, mapVars, syncVars, appVars>>

NextLayers ==
    \/ \E in \in AddLayerInputs : addLayer(in[1], in[2]) /\ LayersOnly
    \/ \E o \in LayerObjs : showLayer(o) /\ LayersOnly
    \/ \E o \in LayerObjs : hideLayer(o) /\ LayersOnly
    \/ hideAllLayers /\ LayersOnly
    \/ \E o \in LayerObjs : removeLayer(o) /\ LayersOnly
    \/ \E o \in LayerObjs : refreshLayer(o) /\ LayersOnly

NoLegend == [called |-> FALSE, pct |-> FALSE, throws |-> FALSE, bins |-> <<>>]

InitQuantIdle ==
    /\ qValues = <<>>
    /\ qResult = <<>>
    /\ qPc = "idle"
    /\ qLegend = NoLegend


(***************************************************************************)
(* getQuantiles (data.ts)                                                  *)
(***************************************************************************)
\* The value 0.1 that replaces a boundary of 0, in tenths.
Nudge == 1

QuantileValues == {-3, 0, 1, 7}

\* The first n - 1 boundaries: values[Math.round((i + 1) * step)], step = length / n.
InteriorQuantiles(sorted, n) ==
    [i \in 1..(n - 1) |-> At(sorted, RoundDiv(i * Len(sorted), n))]

\* Mutant: the replacement of a 0 boundary is left out.
NudgeFirst_never(q) == q

\* if (quantiles[0] === 0) quantiles[0] = 0.1
NudgeFirst(q) == IF q[1] = Num(0) THEN [q EXCEPT ![1] = Num(Nudge)] ELSE q

\* getQuantiles(values, n), for the array as sorted by the call.
getQuantiles(sorted, n) ==
    NudgeFirst(Append(InteriorQuantiles(sorted, n), At(sorted, Len(sorted) - 1)))

CallGetQuantiles ==
    /\ qPc = "call"
    /\ qValues' = SortDesc(qValues)
    /\ qResult' = getQuantiles(SortDesc(qValues), 4)
    /\ qPc' = "done"

RECURSIVE SeqsOfLen(_, _)
SeqsOfLen(S, n) ==
    IF n = 0 THEN {<<>>}
    ELSE {Append(s, x) : s \in SeqsOfLen(S, n - 1), x \in S}

\* Every non-empty list of at most MaxLen values is a possible argument.
InitQuantiles ==
    /\ qValues \in UNION {SeqsOfLen(QuantileValues, n) : n \in 1..MaxLen}
    /\ qResult = <<>>
    /\ qPc = "call"
    /\ qLegend = NoLegend

NextQuantiles ==
    /\ CallGetQuantiles
    /\ UNCHANGED qLegend
    /\ UNCHANGED <<layerVars, cacheVars, poleVars, serverVars, mapVars, syncVars, appVars>>

(***************************************************************************)
(* The data cache (data.ts): the layers the loads are given, the traits,   *)
(* and what the server answers.                                            *)
(***************************************************************************)
CacheLayers == {"A", "B"}

\* The limits of the data endpoints on the lengths of the geoId and traitId lists.
MaxGeoIds == 2000

MaxTraitIds == 50

\* A geoId list of n entries: g1, g2, ...
GeoIds(n) == [i \in 1..n |-> "g" \o ToString(i)]

TraitIds(n) == [i \in 1..n |-> i]

\* Layer E was built from a collection without features.
EmptyLayers == {"A", "E"}

\* Layer C is a city of more than 2000 features.
SizedLayers == {"A", "C"}

\* layer.ids of the layer objects; layers A and B share a feature.
LayerIds(l) ==
    CASE l = "A" -> <<"g1", "g2">>
      [] l = "C" -> GeoIds(MaxGeoIds + 3)
      [] l = "E" -> <<>>
      [] OTHER -> <<"g2">>

GeoOrder == <<"g1", "g2">>

ElectionTrait(e, party) == [type |-> "election", id |-> e, party |-> party, isRate |-> FALSE]

CensusTrait(t, isRate) == [type |-> "census", id |-> t, party |-> "", isRate |-> isRate]

ElectionTraits == {ElectionTrait(44, "Liberal")}

\* GET /api/census/trait: trait 1 is a count, trait 2 a rate.
ServerCensusTraits == <<CensusTrait(1, FALSE), CensusTrait(2, TRUE)>>

\* The (layer, trait) arguments of the loadElectionData calls.
ElectionLoads == {<<"A", t>> : t \in ElectionTraits}

\* The ids of the census traits of the server.
ActiveIds == [i \in 1..Len(ServerCensusTraits) |-> ServerCensusTraits[i].id]

\* The (layer, trait, traits) arguments of the loadCensusData calls: the layer,
\* the requested trait and the ids of the active traits.
CensusLoads == {<<"A", 1, <<1>>>>, <<"A", 2, <<1>>>>, <<"B", 1, <<1>>>>}

\* The loads of the specification with the layer without ids; the requested
\* trait 2 is not among the active traits.
EmptyElectionLoads == {<<l, t>> : l \in EmptyLayers, t \in ElectionTraits}

EmptyCensusLoads == {<<l, t, <<1>>>> : l \in EmptyLayers, t \in {1, 2}}

\* The loads of the specification with the large layer and with 51 active
\* census traits (the traits 3 to 51 have no value for the features).
SizedElectionLoads == {<<l, t>> : l \in SizedLayers, t \in ElectionTraits}

SizedCensusLoads == {<<"A", 1, <<1>>>>, <<"A", 1, TraitIds(MaxTraitIds + 1)>>, <<"C", 1, <<1>>>>}

\* The election rows the server holds: vote shares in hundredths.  No row for g2.
ServerElectionRows(e, g) ==
    CASE e = 44 /\ g = "g1" -> <<[g |-> "g1", p |-> "Liberal", vp |-> 40], [g |-> "g1", p |-> "NDP", vp |-> 20]>>
      [] OTHER -> <<>>

\* The census values the server holds, in tenths.  No value for g2.
ServerCensusRows(t, g) ==
    CASE t = 1 /\ g = "g1" -> <<[t |-> 1, g |-> "g1", v |-> 70]>>
      [] t = 2 /\ g = "g1" -> <<[t |-> 2, g |-> "g1", v |-> 125]>>
      [] OTHER -> <<>>

RECURSIVE Flatten(_)
Flatten(ss) == IF ss = <<>> THEN <<>> ELSE Head(ss) \o Flatten(Tail(ss))

\* getElectionData(electionId, geoId): the rows of the requested ids.
getElectionData(e, geoIds) ==
    Flatten([i \in 1..Len(geoIds) |-> ServerElectionRows(e, geoIds[i])])

\* getCensusData(traitId, geoId): the rows of the requested traits and ids.
getCensusData(traitIds, geoIds) ==
    Flatten([i \in 1..Len(geoIds) |->
        Flatten([j \in 1..Len(traitIds) |-> ServerCensusRows(traitIds[j], geoIds[i])])])

(***************************************************************************)
(* Maps.  A Map is a function whose domain is the set of keys it has.      *)
(***************************************************************************)
EmptyMap == <<>>

Has(m, k) == k \in DOMAIN m

Put(m, k, v) == [x \in (DOMAIN m) \cup {k} |-> IF x = k THEN v ELSE m[x]]

\* trait.electionId + '-' + g.  The id is a number, so the text up to the first
\* '-' determines it and the key determines the pair: the pair stands for the key.
ElectionKey(e, g) == <<e, g>>

CensusKey(g) == g

\* The ids of the layer that have no key in the election cache.
MissingElection(eData, e, ids) == SelectSeq(ids, LAMBDA g : ~Has(eData, ElectionKey(e, g)))

\* Mutant: the cache is not consulted, every id of the layer is requested.
MissingCensus_all(cData, ids) == ids

\* Mutant: an id that a fetch in flight has requested is not requested again.
MissingCensus_notInFlight(cData, ids) ==
    SelectSeq(ids, LAMBDA g :
        /\ ~Has(cData, CensusKey(g))
        /\ ~\E d \in BagToSet(inflight) :
               d.stage = "data" /\ d.kind = "census" /\ g \in Range(d.missing))

\* The ids of the layer that have no key in the census cache.
MissingCensus(cData, ids) == SelectSeq(ids, LAMBDA g : ~Has(cData, CensusKey(g)))

\* Mutant: no placeholder is written for the requested ids.
Placeholders_none(m, keys) == m

\* for (const g of missing) if (!cache.has(key)) cache.set(key, [])
RECURSIVE Placeholders(_, _)
Placeholders(m, keys) ==
    IF keys = <<>> THEN m
    ELSE Placeholders(IF Has(m, Head(keys)) THEN m ELSE Put(m, Head(keys), <<>>), Tail(keys))

\* Mutant: every row is pushed, whatever the group holds.
RECURSIVE MergeElection_push(_, _, _)
MergeElection_push(eData, e, rows) ==
    IF rows = <<>> THEN eData
    ELSE LET row == Head(rows)
             key == ElectionKey(e, row.g)
             group == IF Has(eData, key) THEN eData[key] ELSE <<>>
         IN  MergeElection_push(Put(eData, key, Append(group, row)), e, Tail(rows))

\* data.forEach(row => ...) of loadElectionData: a row is pushed unless the group
\* has a row of the same party.
RECURSIVE MergeElection(_, _, _)
MergeElection(eData, e, rows) ==
    IF rows = <<>> THEN eData
    ELSE LET row == Head(rows)
             key == ElectionKey(e, row.g)
             group == IF Has(eData, key) THEN eData[key] ELSE <<>>
             existing == \E i \in 1..Len(group) : group[i].p = row.p
         IN  MergeElection(Put(eData, key, IF existing THEN group ELSE Append(group, row)), e, Tail(rows))

\* data.forEach(row => ...) of loadCensusData: a row is pushed unless the group
\* has a row of the same trait.
RECURSIVE MergeCensus(_, _)
MergeCensus(cData, rows) ==
    IF rows = <<>> THEN cData
    ELSE LET row == Head(rows)
             key == CensusKey(row.g)
             group == IF Has(cData, key) THEN cData[key] ELSE <<>>
             existing == \E i \in 1..Len(group) : group[i].t = row.t
         IN  MergeCensus(Put(cData, key, IF existing THEN group ELSE Append(group, row)), Tail(rows))

ElectionKeys(e, ids) == [i \in 1..Len(ids) |-> ElectionKey(e, ids[i])]

CensusKeys(ids) == [i \in 1..Len(ids) |-> CensusKey(ids[i])]

\* The election cache after a fetch for `missing` resolved with `rows`.
ElectionAfterFetch(eData, e, missing, rows) ==
    MergeElection(Placeholders(eData, ElectionKeys(e, missing)), e, rows)

\* The census cache after a fetch for `missing` resolved with `rows`.
CensusAfterFetch(cData, missing, rows) ==
    MergeCensus(Placeholders(cData, CensusKeys(missing)), rows)

(***************************************************************************)
(* Classification and tooltips                                             *)
(***************************************************************************)
\* Mutant: the row of the trait is taken whatever its geoId.
CensusValues_anyId(cData, t, ids) ==
    LET hit(g) == {i \in 1..Len(cData[g]) : cData[g][i].t = t}
        first(g) == cData[g][CHOOSE i \in hit(g) : \A j \in hit(g) : i <= j]
        one(g) == IF Has(cData, g) /\ hit(g) # {} THEN <<first(g).v>> ELSE <<>>
    IN  Flatten([k \in 1..Len(GeoOrder) |-> one(GeoOrder[k])])

\* The values of the requested trait in the groups of the cache whose row is of
\* an id of the layer.  (The Map is walked in insertion order; getQuantiles sorts
\* the values before anything reads them.)
CensusValues(cData, t, ids) ==
    LET hit(g) == {i \in 1..Len(cData[g]) : cData[g][i].t = t /\ cData[g][i].g \in Range(ids)}
        first(g) == cData[g][CHOOSE i \in hit(g) : \A j \in hit(g) : i <= j]
        one(g) == IF Has(cData, g) /\ hit(g) # {} THEN <<first(g).v>> ELSE <<>>
    IN  Flatten([k \in 1..Len(GeoOrder) |-> one(GeoOrder[k])])

\* getLegend throws a TypeError when it calls toFixed on undefined: with pct set,
\* on values[0] of an empty list or on a boundary that is undefined.
LegendThrows(values, bins, pct) ==
    pct /\ (values = <<>> \/ \E i \in 1..Len(bins) : bins[i] = Undefined)

ElectionBins == <<Num(35), Num(25), Num(15), Num(0)>>

NoStyle == [kind |-> "none", trait |-> 0, party |-> "", bins |-> <<>>]

\* r.v.toFixed(1) + '%' for a rate, r.v.toFixed(0) otherwise (v in tenths).
FormatValue(v, isRate) ==
    IF isRate THEN [digits |-> v, decimals |-> 1, unit |-> "%"]
    ELSE [digits |-> (IF v >= 0 THEN RoundDiv(v, 10) ELSE 0 - RoundDiv(0 - v, 10)), decimals |-> 0, unit |-> ""]

\* getTooltip(props, trait) for an election trait.
ElectionTooltip(eData, e, g) ==
    IF Has(eData, ElectionKey(e, g))
    THEN [type |-> "election", title |-> g,
          results |-> [i \in 1..Len(eData[ElectionKey(e, g)]) |->
                        [party |-> eData[ElectionKey(e, g)][i].p, pct |-> eData[ElectionKey(e, g)][i].vp]]]
    ELSE [type |-> "election", title |-> g, results |-> <<>>]

\* getTooltip(props, trait) for a census trait.
CensusTooltip(cData, cTraits, g) ==
    IF Has(cData, g)
    THEN [type |-> "census", title |-> g,
          results |-> [i \in 1..Len(cData[g]) |->
                        IF Has(cTraits, cData[g][i].t)
                        THEN [id |-> cData[g][i].t,
                              value |-> FormatValue(cData[g][i].v, cTraits[cData[g][i].t].isRate)]
                        ELSE [id |-> cData[g][i].t, value |-> "TypeError"]]]
    ELSE [type |-> "census", title |-> g, results |-> <<>>]

(***************************************************************************)
(* The loads.  A load that reaches an await is a record in `inflight`; the *)
(* steps are the call (up to its first await on the network) and the       *)
(* resolution or rejection of the awaited fetch.                           *)
(***************************************************************************)
\* `purgedSince` is history: whether the census cache was purged after the call
\* was made (kept where the specification records the resolved loads).
Call(kind, stage, layer, trait, traits, missing) ==
    [kind |-> kind, stage |-> stage, layer |-> layer, trait |-> trait, traits |-> traits,
     missing |-> missing, purgedSince |-> FALSE]

Suspend(bag, call) == bag (+) SetToBag({call})

Resume(bag, call) == bag (-) SetToBag({call})

InFlight == BagToSet(inflight)

\* What the loads with the same ids and the same trait share: the kind, the id of
\* the election or of the census trait, and the ids of the layer.
LoadKey(kind, id, layer) == <<kind, id, LayerIds(layer)>>

Step(op, key, req, outcome) == [op |-> op, key |-> key, req |-> req, outcome |-> outcome]

\* The history variables after a step, where the specification keeps them.
\* A load that resolved joins `loaded` unless the census cache was purged since
\* it was called.
Loaded(key, purgedSince) ==
    IF "loaded" \in track /\ ~purgedSince THEN loaded \cup {key} ELSE loaded

\* The suspended loads after a purge: the census loads are marked.
MarkPurged(bag) ==
    LET mark(c) == IF c.kind = "census" THEN [c EXCEPT !.purgedSince = TRUE] ELSE c
        count(c) == IF c \in DOMAIN bag THEN bag[c] ELSE 0
        S == {mark(c) : c \in BagToSet(bag)}
    IN  IF "loaded" \in track
        THEN [d \in S |-> count(d) + (IF d.purgedSince THEN count([d EXCEPT !.purgedSince = FALSE]) ELSE 0)]
        ELSE bag

Purged(add, remove) == IF "purged" \in track THEN (purged \cup add) \ remove ELSE purged

\* The data endpoints answer a fetch with rows only if its lists are within the
\* limits; otherwise the fetch rejects.
ServerAccepts(call) ==
    /\ Len(call.missing) <= MaxGeoIds
    /\ call.kind = "census" => Len(call.traits) <= MaxTraitIds

\* Mutant: the legend is returned but layer.getStyle is not assigned.
FinishElection_noStyle(op, layer, trait) ==
    /\ UNCHANGED getStyle
    /\ loaded' = Loaded(LoadKey("election", trait.id, layer), FALSE)
    /\ last' = Step(op, LoadKey("election", trait.id, layer), <<>>, "resolved")

\* The tail of loadElectionData: the legend is built and layer.getStyle is set.
FinishElection(op, layer, trait) ==
    /\ getStyle' = [getStyle EXCEPT ![layer] =
            [kind |-> "election", trait |-> trait.id, party |-> trait.party, bins |-> ElectionBins]]
    /\ loaded' = Loaded(LoadKey("election", trait.id, layer), FALSE)
    /\ last' = Step(op, LoadKey("election", trait.id, layer), <<>>, "resolved")

loadElectionData(layer, trait) ==
    LET missing == MissingElection(electionData, trait.id, LayerIds(layer))
    IN  IF missing # <<>>
        THEN /\ BagCardinality(inflight) < MaxCalls
             /\ inflight' = Suspend(inflight, Call("election", "data", layer, trait, <<>>, missing))
             /\ last' = Step("loadElectionData", LoadKey("election", trait.id, layer), missing, "pending")
             /\ UNCHANGED <<electionData, censusData, censusTraits, getStyle, loaded, purged>>
        ELSE /\ FinishElection("loadElectionData", layer, trait)
             /\ UNCHANGED <<electionData, censusData, censusTraits, inflight, purged>>

ElectionDataResolve(call) ==
    /\ call.kind = "election"
    /\ ServerAccepts(call)
    /\ electionData' = ElectionAfterFetch(electionData, call.trait.id, call.missing,
                                          getElectionData(call.trait.id, call.missing))
    /\ inflight' = Resume(inflight, call)
    /\ FinishElection("dataResolve", call.layer, call.trait)
    /\ UNCHANGED <<censusData, censusTraits, purged>>

\* Mutant: the placeholders are written although the fetch failed.
DataReject_placeholders(call) ==
    /\ call.stage = "data"
    /\ inflight' = Resume(inflight, call)
    /\ last' = Step("dataReject", LoadKey(call.kind, call.trait.id, call.layer),
                    call.missing, "rejected")
    /\ electionData' = IF call.kind = "election"
                       THEN Placeholders(electionData, ElectionKeys(call.trait.id, call.missing))
                       ELSE electionData
    /\ censusData' = IF call.kind = "census"
                     THEN Placeholders(censusData, CensusKeys(call.missing))
                     ELSE censusData
    /\ UNCHANGED <<censusTraits, getStyle, loaded, purged>>

\* getElectionData or getCensusData rejects: the load rejects at its await.
DataReject(call) ==
    /\ call.stage = "data"
    /\ inflight' = Resume(inflight, call)
    /\ last' = Step("dataReject", LoadKey(call.kind, call.trait.id, call.layer),
                    call.missing, "rejected")
    /\ UNCHANGED <<electionData, censusData, censusTraits, getStyle, loaded, purged>>

\* The tail of loadCensusData on the census cache cData: the values are
\* classified, the legend is built (which may throw) and layer.getStyle is set.
FinishCensus(op, cData, layer, trait, purgedSince) ==
    LET values == SortDesc(CensusValues(cData, trait.id, LayerIds(layer)))
        bins == getQuantiles(values, 4)
        key == LoadKey("census", trait.id, layer)
    IN  IF LegendThrows(values, bins, trait.isRate)
        THEN /\ last' = Step(op, key, <<>>, "rejected")
             /\ UNCHANGED <<getStyle, loaded>>
        ELSE /\ getStyle' = [getStyle EXCEPT ![layer] =
                    [kind |-> "census", trait |-> trait.id, party |-> "", bins |-> bins]]
             /\ loaded' = Loaded(key, purgedSince)
             /\ last' = Step(op, key, <<>>, "resolved")

\* Mutant: the requested trait is not added to the list of traits to load.
CensusContinue_asGiven(op, bag, layer, trait, traits, purgedSince) ==
    LET missing == MissingCensus(censusData, LayerIds(layer))
    IN  IF missing # <<>>
        THEN /\ inflight' = Suspend(bag, [Call("census", "data", layer, trait, traits, missing)
                                            EXCEPT !.purgedSince = purgedSince])
             /\ last' = Step(op, LoadKey("census", trait.id, layer), missing, "pending")
             /\ purged' = Purged({}, Range(missing))
             /\ UNCHANGED <<electionData, censusData, getStyle, loaded>>
        ELSE /\ inflight' = bag
             /\ FinishCensus(op, censusData, layer, trait, purgedSince)
             /\ UNCHANGED <<electionData, censusData, purged>>

\* loadCensusData from the line after `await loadCensusTraits()`; `bag` holds the
\* other suspended loads.
CensusContinue(op, bag, layer, trait, traits, purgedSince) ==
    LET all == IF \E i \in 1..Len(traits) : traits[i] = trait.id THEN traits ELSE Append(traits, trait.id)
        missing == MissingCensus(censusData, LayerIds(layer))
    IN  IF missing # <<>>
        THEN /\ inflight' = Suspend(bag, [Call("census", "data", layer, trait, all, missing)
                                            EXCEPT !.purgedSince = purgedSince])
             /\ last' = Step(op, LoadKey("census", trait.id, layer), missing, "pending")
             /\ purged' = Purged({}, Range(missing))
             /\ UNCHANGED <<electionData, censusData, getStyle, loaded>>
        ELSE /\ inflight' = bag
             /\ FinishCensus(op, censusData, layer, trait, purgedSince)
             /\ UNCHANGED <<electionData, censusData, purged>>

TraitById(t) == ServerCensusTraits[CHOOSE i \in 1..Len(ServerCensusTraits) : ServerCensusTraits[i].id = t]

\* loadCensusTraits of an empty trait cache awaits getCensusTraits; with the
\* traits cached the await resumes before any fetch can resolve, and the call
\* runs on to its data fetch.
loadCensusData(layer, t, traits) ==
    IF censusTraits = EmptyMap
    THEN /\ BagCardinality(inflight) < MaxCalls
         /\ inflight' = Suspend(inflight, Call("census", "traits", layer, TraitById(t), traits, <<>>))
         /\ last' = Step("loadCensusTraits", LoadKey("census", t, layer), <<>>, "pending")
         /\ UNCHANGED <<electionData, censusData, censusTraits, getStyle, loaded, purged>>
    ELSE /\ BagCardinality(inflight) < MaxCalls
         /\ CensusContinue("loadCensusData", inflight, layer, TraitById(t), traits, FALSE)
         /\ UNCHANGED censusTraits

\* getCensusTraits resolves: the traits are cached and loadCensusData goes on.
TraitsResolve(call) ==
    /\ call.stage = "traits"
    /\ censusTraits' = [t \in {ServerCensusTraits[i].id : i \in 1..Len(ServerCensusTraits)} |-> TraitById(t)]
    /\ CensusContinue("traitsResolve", Resume(inflight, call), call.layer, call.trait, call.traits,
                      call.purgedSince)

TraitsReject(call) ==
    /\ call.stage = "traits"
    /\ inflight' = Resume(inflight, call)
    /\ last' = Step("traitsReject", LoadKey("census", call.trait.id, call.layer), <<>>, "rejected")
    /\ UNCHANGED <<electionData, censusData, censusTraits, getStyle, loaded, purged>>

CensusDataResolve(call) ==
    /\ call.kind = "census"
    /\ call.stage = "data"
    /\ ServerAccepts(call)
    /\ censusData' = CensusAfterFetch(censusData, call.missing, getCensusData(call.traits, call.missing))
    /\ inflight' = Resume(inflight, call)
    /\ FinishCensus("dataResolve", censusData', call.layer, call.trait, call.purgedSince)
    /\ UNCHANGED <<electionData, censusTraits, purged>>

\* Mutant: the purge clears the election cache as well.
purgeCensusData_both ==
    /\ censusData' = EmptyMap
    /\ electionData' = EmptyMap
    /\ loaded' = {}
    /\ purged' = Purged(DOMAIN censusData, {})
    /\ inflight' = MarkPurged(inflight)
    /\ last' = Step("purgeCensusData", <<"census", 0, <<>>>>, <<>>, "none")
    /\ UNCHANGED <<censusTraits, getStyle>>

purgeCensusData ==
    /\ censusData' = EmptyMap
    /\ loaded' = {k \in loaded : k[1] = "election"}
    /\ purged' = Purged(DOMAIN censusData, {})
    /\ inflight' = MarkPurged(inflight)
    /\ last' = Step("purgeCensusData", <<"census", 0, <<>>>>, <<>>, "none")
    /\ UNCHANGED <<electionData, censusTraits, getStyle>>

InitCache ==
    /\ electionData = EmptyMap
    /\ censusData = EmptyMap
    /\ censusTraits = EmptyMap
    /\ getStyle = [l \in CacheLayers |-> NoStyle]
    /\ inflight = EmptyBag
    /\ last = Step("init", <<"none", 0, <<>>>>, <<>>, "none")
    /\ loaded = {}
    /\ purged = {}

InitCacheSized ==
    /\ electionData = EmptyMap
    /\ censusData = EmptyMap
    /\ censusTraits = EmptyMap
    /\ getStyle = [l \in SizedLayers |-> NoStyle]
    /\ inflight = EmptyBag
    /\ last = Step("init", <<"none", 0, <<>>>>, <<>>, "none")
    /\ loaded = {}
    /\ purged = {}

InitCacheEmpty ==
    /\ electionData = EmptyMap
    /\ censusData = EmptyMap
    /\ censusTraits = EmptyMap
    /\ getStyle = [l \in EmptyLayers |-> NoStyle]
    /\ inflight = EmptyBag
    /\ last = Step("init", <<"none", 0, <<>>>>, <<>>, "none")
    /\ loaded = {}
    /\ purged = {}

CacheOnly == UNCHANGED <<layerVars, quantVars, track, poleVars, serverVars, mapVars, syncVars, appVars>>

NextCache ==
    \/ \E in \in ElectionLoads : loadElectionData(in[1], in[2]) /\ CacheOnly
    \/ \E in \in CensusLoads : loadCensusData(in[1], in[2], in[3]) /\ CacheOnly
    \/ \E call \in InFlight : ElectionDataResolve(call) /\ CacheOnly
    \/ \E call \in InFlight : CensusDataResolve(call) /\ CacheOnly
    \/ \E call \in InFlight : DataReject(call) /\ CacheOnly
    \/ \E call \in InFlight : TraitsResolve(call) /\ CacheOnly
    \/ \E call \in InFlight : TraitsReject(call) /\ CacheOnly
    \/ purgeCensusData /\ CacheOnly

NextCacheEmpty ==
    \/ \E in \in EmptyElectionLoads : loadElectionData(in[1], in[2]) /\ CacheOnly
    \/ \E in \in EmptyCensusLoads : loadCensusData(in[1], in[2], in[3]) /\ CacheOnly
    \/ \E call \in InFlight : ElectionDataResolve(call) /\ CacheOnly
    \/ \E call \in InFlight : CensusDataResolve(call) /\ CacheOnly
    \/ \E call \in InFlight : DataReject(call) /\ CacheOnly
    \/ \E call \in InFlight : TraitsResolve(call) /\ CacheOnly
    \/ \E call \in InFlight : TraitsReject(call) /\ CacheOnly
    \/ purgeCensusData /\ CacheOnly

NextCacheSized ==
    \/ \E in \in SizedElectionLoads : loadElectionData(in[1], in[2]) /\ CacheOnly
    \/ \E in \in SizedCensusLoads : loadCensusData(in[1], in[2], in[3]) /\ CacheOnly
    \/ \E call \in InFlight : ElectionDataResolve(call) /\ CacheOnly
    \/ \E call \in InFlight : CensusDataResolve(call) /\ CacheOnly
    \/ \E call \in InFlight : DataReject(call) /\ CacheOnly
    \/ \E call \in InFlight : TraitsResolve(call) /\ CacheOnly
    \/ \E call \in InFlight : TraitsReject(call) /\ CacheOnly
    \/ purgeCensusData /\ CacheOnly

(***************************************************************************)
(* The styling function layer.getStyle that a load installs, applied to a  *)
(* feature by refreshLayer and showLayer.                                  *)
(***************************************************************************)
\* The four colours of a scheme, by class, and the fallback colour.
ClassColors == <<"class0", "class1", "class2", "class3">>

Neutral == "#eee"

\* colors[i] of a JavaScript array (0-based).
ColorAt(colors, i) == IF i >= 0 /\ i < Len(colors) THEN colors[i + 1] ELSE "undefined"

\* Mutant: the index of the last boundary that the value reaches.
FindIndex_last(bins, v) ==
    LET hits == {i \in 1..Len(bins) : IsNum(bins[i]) /\ v >= bins[i][1]}
    IN  IF hits = {} THEN 0 - 1 ELSE (CHOOSE i \in hits : \A j \in hits : i >= j) - 1

\* bins.findIndex(q => v >= q): 0-based, -1 when no boundary is reached; a
\* comparison with undefined is false.
FindIndex(bins, v) ==
    LET hits == {i \in 1..Len(bins) : IsNum(bins[i]) /\ v >= bins[i][1]}
    IN  IF hits = {} THEN 0 - 1 ELSE (CHOOSE i \in hits : \A j \in hits : i <= j) - 1

\* group.find(pred): the positions of the rows of the group that match.
Matches(style, group) ==
    {i \in 1..Len(group) :
        IF style.kind = "election" THEN group[i].p = style.party ELSE group[i].t = style.trait}

\* The group the styling function looks up for the feature id g.
StyleGroup(style, eData, cData, g) ==
    IF style.kind = "election"
    THEN (IF Has(eData, ElectionKey(style.trait, g)) THEN eData[ElectionKey(style.trait, g)] ELSE <<>>)
    ELSE (IF Has(cData, CensusKey(g)) THEN cData[CensusKey(g)] ELSE <<>>)

RowValue(style, row) == IF style.kind = "election" THEN row.vp ELSE row.v

\* layer.getStyle(feature, props) with props.id = g: the fillColor it returns.
ApplyStyle(style, eData, cData, g) ==
    LET group == StyleGroup(style, eData, cData, g)
        hits == Matches(style, group)
        row == group[CHOOSE i \in hits : \A j \in hits : i <= j]
    IN  IF hits # {}
        THEN ColorAt(ClassColors, FindIndex(style.bins, RowValue(style, row)))
        ELSE Neutral

\* Vote shares in hundredths on both sides of every boundary.
VoteShares == {0, 14, 15, 24, 25, 34, 35, 100}

\* Census values in tenths.
CensusShares == {0, 7, 70}

\* What the election cache can hold for the feature g once a load of election
\* 44 resolved: a placeholder, rows of another party only, or a row of the party.
ElectionGroups(g) ==
    {<<>>, <<[g |-> g, p |-> "NDP", vp |-> 20]>>}
    \cup {<<[g |-> g, p |-> "Liberal", vp |-> v], [g |-> g, p |-> "NDP", vp |-> 20]>> : v \in VoteShares}

\* What the census cache can hold for the feature g once a load resolved.
CensusGroups(g) ==
    {<<>>, <<[t |-> 2, g |-> g, v |-> 125]>>}
    \cup {<<[t |-> 1, g |-> g, v |-> v]>> : v \in CensusShares}

Restrict(m, K) == [k \in K |-> m[k]]

\* layer A after loadElectionData resolved for the Liberal trait of election 44.
InitElectionStyle ==
    /\ electionData \in {m \in [{ElectionKey(44, "g1"), ElectionKey(44, "g2")} ->
                                    ElectionGroups("g1") \cup ElectionGroups("g2")] :
                            \A k \in DOMAIN m : m[k] \in ElectionGroups(k[2])}
    /\ censusData = EmptyMap
    /\ getStyle = [l \in CacheLayers |->
                    IF l = "A"
                    THEN [kind |-> "election", trait |-> 44, party |-> "Liberal", bins |-> ElectionBins]
                    ELSE NoStyle]

\* layer A after loadCensusData resolved for trait 1, and after keys of the
\* census cache were purged since (and some loaded again).
InitCensusStyle ==
    /\ electionData = EmptyMap
    /\ \E atLoad \in {m \in [{"g1", "g2"} -> CensusGroups("g1") \cup CensusGroups("g2")] :
                            \A k \in DOMAIN m : m[k] \in CensusGroups(k)} :
          /\ getStyle = [l \in CacheLayers |->
                            IF l = "A"
                            THEN [kind |-> "census", trait |-> 1, party |-> "",
                                  bins |-> getQuantiles(SortDesc(CensusValues(atLoad, 1, LayerIds("A"))), 4)]
                            ELSE NoStyle]
          /\ censusData \in {Restrict(atLoad, K) : K \in SUBSET {"g1", "g2"}}

InitStyle ==
    /\ InitElectionStyle \/ InitCensusStyle
    /\ censusTraits = EmptyMap
    /\ inflight = EmptyBag
    /\ last = Step("init", <<"none", 0, <<>>>>, <<>>, "none")
    /\ loaded = {}
    /\ purged = {}

\* refreshLayer / showLayer apply layer.getStyle to the feature g of the layer.
ApplyGetStyle(layer, kind, g) ==
    /\ getStyle[layer].kind = kind
    /\ last' = Step("getStyle", <<kind, getStyle[layer].trait, <<g>>>>, <<>>,
                    ApplyStyle(getStyle[layer], electionData, censusData, g))
    /\ UNCHANGED <<electionData, censusData, censusTraits, getStyle, inflight, loaded, purged>>

NextStyle ==
    \/ \E l \in CacheLayers : \E g \in Range(LayerIds(l)) : ApplyGetStyle(l, "election", g) /\ CacheOnly
    \/ \E l \in CacheLayers : \E g \in Range(LayerIds(l)) : ApplyGetStyle(l, "census", g) /\ CacheOnly

(***************************************************************************)
(* PoleLabelPlacement.  Coordinates are counted in half degrees, so that   *)
(* the cell sizes of the polygons below and their halves are integers.  A  *)
(* point is <<x, y>> = <<lng, lat>>.  Distances are compared through their *)
(* squares, kept as fractions <<numerator, denominator>>.                  *)
(***************************************************************************)
\* new PoleLabelPlacement(1): a precision of 1 degree, in half degrees.
Precision == 2

\* The first paths of the polygons findPosition is given: a square of 10 by 10
\* degrees, a triangle, a thin triangle along the diagonal of its bounds, and a
\* square of 20 by 20 degrees.
Polygons ==
    { <<<<1, 1>>, <<21, 1>>, <<21, 21>>, <<1, 21>>>>,
      <<<<1, 1>>, <<21, 3>>, <<9, 21>>>>,
      <<<<2, 22>>, <<22, 1>>, <<22, 3>>>>,
      <<<<1, 1>>, <<41, 1>>, <<41, 41>>, <<1, 41>>>> }

Min(a, b) == IF a <= b THEN a ELSE b

Max(a, b) == IF a >= b THEN a ELSE b

\* bounds.extend over the points of the path.
SouthWest(path) ==
    <<CHOOSE x \in {path[i][1] : i \in DOMAIN path} : \A i \in DOMAIN path : x <= path[i][1],
      CHOOSE y \in {path[i][2] : i \in DOMAIN path} : \A i \in DOMAIN path : y <= path[i][2]>>

NorthEast(path) ==
    <<CHOOSE x \in {path[i][1] : i \in DOMAIN path} : \A i \in DOMAIN path : x >= path[i][1],
      CHOOSE y \in {path[i][2] : i \in DOMAIN path} : \A i \in DOMAIN path : y >= path[i][2]>>

\* Math.min(width, height) / 10 (exact for the polygons above).
CellSizeOf(path) ==
    Min(NorthEast(path)[1] - SouthWest(path)[1], NorthEast(path)[2] - SouthWest(path)[2]) \div 10

\* The i-th edge of the path: path.getAt(i), path.getAt((i + 1) % len).
EdgeFrom(path, i) == path[i]

EdgeTo(path, i) == path[(i % Len(path)) + 1]

\* Where a point lies: "edge" on an edge of the path, else "in" or "out" by
\* the parity of the edges a ray to the east crosses.
Locate(pt, path) ==
    LET onEdge(i) ==
            LET a == EdgeFrom(path, i)
                b == EdgeTo(path, i)
            IN  /\ (b[1] - a[1]) * (pt[2] - a[2]) = (b[2] - a[2]) * (pt[1] - a[1])
                /\ Min(a[1], b[1]) <= pt[1] /\ pt[1] <= Max(a[1], b[1])
                /\ Min(a[2], b[2]) <= pt[2] /\ pt[2] <= Max(a[2], b[2])
        crosses(i) ==
            LET a == EdgeFrom(path, i)
                b == EdgeTo(path, i)
                lhs == (pt[1] - a[1]) * (b[2] - a[2])
                rhs == (pt[2] - a[2]) * (b[1] - a[1])
            IN  /\ (a[2] > pt[2]) # (b[2] > pt[2])
                /\ IF b[2] > a[2] THEN lhs < rhs ELSE lhs > rhs
    IN  IF \E i \in DOMAIN path : onEdge(i) THEN "edge"
        ELSE IF Cardinality({i \in DOMAIN path : crosses(i)}) % 2 = 1 THEN "in"
        ELSE "out"

\* google.maps.geometry.poly.containsLocation: the result for a point on an
\* edge is not specified; edgeIn is the result the library gives for it.
containsLocation(pt, path, edgeIn) ==
    CASE Locate(pt, path) = "in" -> TRUE
      [] Locate(pt, path) = "out" -> FALSE
      [] OTHER -> edgeIn

RECURSIVE Gcd(_, _)
Gcd(a, b) == IF b = 0 THEN a ELSE Gcd(b, a % b)

\* A fraction in lowest terms.
Frac(n, d) == IF n = 0 THEN <<0, 1>> ELSE <<n \div Gcd(n, d), d \div Gcd(n, d)>>

\* -Infinity: below every distance.
NegInfinity == <<-1, 1>>

FracLess(f, g) == f[1] * g[2] < g[1] * f[2]

\* The square of distance(x1, y1, x2, y2).
DistanceSq(a, b) == (b[1] - a[1]) * (b[1] - a[1]) + (b[2] - a[2]) * (b[2] - a[2])

\* The square of pointToSegmentDistance.
pointToSegmentDistance(pt, a, b) ==
    LET dx == b[1] - a[1]
        dy == b[2] - a[2]
        len == dx * dx + dy * dy
        t == (pt[1] - a[1]) * dx + (pt[2] - a[2]) * dy
        cross == (pt[1] - a[1]) * dy - (pt[2] - a[2]) * dx
    IN  IF len = 0 THEN Frac(DistanceSq(pt, a), 1)
        ELSE IF t < 0 THEN Frac(DistanceSq(pt, a), 1)
        ELSE IF t > len THEN Frac(DistanceSq(pt, b), 1)
        ELSE Frac(cross * cross, len)

\* The square of getMinDistanceToEdge.
getMinDistanceToEdge(pt, path) ==
    LET ds == {pointToSegmentDistance(pt, EdgeFrom(path, i), EdgeTo(path, i)) : i \in DOMAIN path}
    IN  CHOOSE d \in ds : \A e \in ds : ~FracLess(e, d)

Cell(x, y, distance) == [x |-> x, y |-> y, distance |-> distance]

\* The body of the loops of findCandidate and refineCell for one point.
Visit(best, pt, path, edgeIn) ==
    IF ~containsLocation(pt, path, edgeIn) THEN best
    ELSE IF FracLess(best.distance, getMinDistanceToEdge(pt, path))
         THEN Cell(pt[1], pt[2], getMinDistanceToEdge(pt, path))
         ELSE best

\* The offsets refineCell visits, dx in the outer loop and dy in the inner.
RefineOffsets(c) ==
    <<<<0 - c, 0 - c>>, <<0 - c, 0>>, <<0 - c, c>>,
      <<0, 0 - c>>, <<0, 0>>, <<0, c>>,
      <<c, 0 - c>>, <<c, 0>>, <<c, c>>>>

RECURSIVE RefineFrom(_, _, _, _, _)
RefineFrom(best, cell, offsets, path, edgeIn) ==
    IF offsets = <<>> THEN best
    ELSE RefineFrom(Visit(best, <<cell.x + Head(offsets)[1], cell.y + Head(offsets)[2]>>, path, edgeIn),
                    cell, Tail(offsets), path, edgeIn)

refineCell(path, cell, cellSize, edgeIn) ==
    RefineFrom(cell, cell, RefineOffsets(cellSize), path, edgeIn)

\* findPosition is called: the bounds and the cell size are computed and
\* findCandidate starts with the placeholder cell.
InitPole ==
    /\ pPolygon \in Polygons
    /\ pCellSize = CellSizeOf(pPolygon)
    /\ pX = SouthWest(pPolygon)[1]
    /\ pY = SouthWest(pPolygon)[2]
    /\ pBest = Cell(0, 0, NegInfinity)
    /\ pPc = "findCandidate"

InitPoleIdle ==
    /\ pPolygon = <<>>
    /\ pCellSize = 0
    /\ pX = 0
    /\ pY = 0
    /\ pBest = Cell(0, 0, NegInfinity)
    /\ pPc = "idle"

\* One turn of the inner loop of findCandidate.
GridPoint ==
    /\ pPc = "findCandidate"
    /\ pX < NorthEast(pPolygon)[1]
    /\ pY < NorthEast(pPolygon)[2]
    /\ \E edgeIn \in BOOLEAN : pBest' = Visit(pBest, <<pX, pY>>, pPolygon, edgeIn)
    /\ pY' = pY + pCellSize
    /\ UNCHANGED <<pPolygon, pCellSize, pX, pPc>>

\* The inner loop ends: the outer loop goes on with the next x.
NextColumn ==
    /\ pPc = "findCandidate"
    /\ pX < NorthEast(pPolygon)[1]
    /\ pY >= NorthEast(pPolygon)[2]
    /\ pX' = pX + pCellSize
    /\ pY' = SouthWest(pPolygon)[2]
    /\ UNCHANGED <<pPolygon, pCellSize, pBest, pPc>>

\* The outer loop ends: findCandidate returns bestCell.
CandidateFound ==
    /\ pPc = "findCandidate"
    /\ pX >= NorthEast(pPolygon)[1]
    /\ pPc' = "refine"
    /\ UNCHANGED <<pPolygon, pCellSize, pX, pY, pBest>>

\* while (cellSize > this.precision) bestCell = refineCell(polygon, bestCell, cellSize / 2)
Refine ==
    /\ pPc = "refine"
    /\ pCellSize > Precision
    /\ \E edgeIn \in BOOLEAN : pBest' = refineCell(pPolygon, pBest, pCellSize \div 2, edgeIn)
    /\ UNCHANGED <<pPolygon, pCellSize, pX, pY, pPc>>

\* The loop ends: return new LatLng(bestCell.y, bestCell.x).
Return ==
    /\ pPc = "refine"
    /\ ~(pCellSize > Precision)
    /\ pPc' = "returned"
    /\ UNCHANGED <<pPolygon, pCellSize, pX, pY, pBest>>

PoleOnly == UNCHANGED <<layerVars, quantVars, cacheVars, serverVars, mapVars, syncVars, appVars>>

NextPole ==
    \/ GridPoint /\ PoleOnly
    \/ NextColumn /\ PoleOnly
    \/ CandidateFound /\ PoleOnly
    \/ Refine /\ PoleOnly
    \/ Return /\ PoleOnly

(***************************************************************************)
(* The server: DataService and MapService.  A service call is a request    *)
(* record; the response is what the call returns or throws, with the       *)
(* number of database queries it executed.                                 *)
(***************************************************************************)
NoResponse == [status |-> "none", value |-> <<>>, queries |-> 0]

Ok(value) == [status |-> "ok", value |-> value, queries |-> 1]

\* throw new ArgumentException(...), before the query.
ArgumentError == [status |-> "error", value |-> "ArgumentException", queries |-> 0]

\* The database raises an error while it executes the query.
QueryError(what) == [status |-> "error", value |-> what, queries |-> 1]

\* Rows of map_shp: the area of the feature and of its intersection with the
\* boundary feature, in whole units.
Shape(id, mapId, area, inter) == [id |-> id, mapId |-> mapId, area |-> area, inter |-> inter]

Areas == {<<a, i>> : a \in 0..MaxArea, i \in 0..MaxArea} \cap {p \in (0..MaxArea) \X (0..MaxArea) : p[2] <= p[1]}

\* The tables the overlap selection runs on: two features of the target map 30
\* and a feature of another map.
ShapeTables ==
    {<<Shape("f1", 30, a[1], a[2]), Shape("f2", 30, b[1], b[2]), Shape("x", 10, c, c)>> :
        a \in Areas, b \in Areas, c \in {0, 3}}

\* >= 0.2, in tenths.
MinOverlapTenths == 2

\* ST_Area(ST_Intersection(shp.geom, bounds.geom)) / ST_Area(shp.geom) >= 0.2 for
\* a feature of non-zero area (the quotient of two doubles is rounded to the
\* nearest double, which for a ratio of 1/5 is the double of the literal 0.2).
OverlapAtLeast(shape) == 10 * shape.inter >= MinOverlapTenths * shape.area

\* GetGeoJsonFromIntersect: the ids of the features the query returns.  A
\* division by zero makes PostgreSQL fail the query; whether the ratio of a row
\* of another map is computed depends on the plan (filterFirst).
GetGeoJsonFromIntersect(table, mapId, filterFirst) ==
    LET target == {i \in DOMAIN table : table[i].mapId = mapId}
        computed == IF filterFirst THEN target ELSE DOMAIN table
    IN  IF \E i \in computed : table[i].area = 0
        THEN QueryError("division by zero")
        ELSE Ok({table[i].id : i \in {j \in target : OverlapAtLeast(table[j])}})

Zooms == (0 - 3)..MaxZoom

\* Mutant: the bands of zoom 11 and 12 are exchanged.
GetSimplifyTolerance_swapped(zoom) ==
    CASE zoom >= 15 -> 3
      [] zoom = 14 -> 4
      [] zoom = 13 -> 5
      [] zoom = 12 -> 20
      [] zoom = 11 -> 10
      [] zoom <= 7 -> 1000
      [] OTHER -> 100

\* GetSimplifyTolerance, in ten-thousandths.
GetSimplifyTolerance(zoom) ==
    CASE zoom >= 15 -> 3
      [] zoom = 14 -> 4
      [] zoom = 13 -> 5
      [] zoom = 12 -> 10
      [] zoom = 11 -> 20
      [] zoom <= 7 -> 1000
      [] OTHER -> 100

GeoIdLists ==
    {GeoIds(n) : n \in {0, 1, 2, MaxGeoIds - 1, MaxGeoIds, MaxGeoIds + 1}} \cup {<<"g3", "g9">>}

TraitIdLists ==
    {TraitIds(n) : n \in {0, 1, 2, MaxTraitIds - 1, MaxTraitIds, MaxTraitIds + 1}} \cup {<<2, 7>>}

\* Rows of election_data (geoId = ed_id || '-' || va_id), ordered by geoId, party.
ElectionTable ==
    << [e |-> 43, g |-> "g1", p |-> "Liberal", vp |-> 35],
       [e |-> 44, g |-> "g1", p |-> "Liberal", vp |-> 40],
       [e |-> 44, g |-> "g1", p |-> "NDP", vp |-> 20],
       [e |-> 44, g |-> "g3", p |-> "Liberal", vp |-> 55],
       [e |-> 44, g |-> "g2001", p |-> "NDP", vp |-> 60],
       [e |-> 44, g |-> "g2002", p |-> "NDP", vp |-> 61] >>

\* Rows of census_data joined with census_trait.
CensusTable ==
    << [c |-> 1, gt |-> "DA", t |-> 1, g |-> "g1", v |-> 70],
       [c |-> 1, gt |-> "DA", t |-> 2, g |-> "g1", v |-> 125],
       [c |-> 1, gt |-> "DA", t |-> 3, g |-> "g1", v |-> 9],
       [c |-> 1, gt |-> "DA", t |-> 51, g |-> "g1", v |-> 8],
       [c |-> 1, gt |-> "DA", t |-> 1, g |-> "g3", v |-> 30],
       [c |-> 1, gt |-> "CD", t |-> 1, g |-> "g1", v |-> 31],
       [c |-> 2, gt |-> "DA", t |-> 1, g |-> "g1", v |-> 32],
       [c |-> 1, gt |-> "DA", t |-> 1, g |-> "g2001", v |-> 33] >>

\* Mutant: a list of more than 2000 geoIds is cut to its first 2000.
GetElectionData_truncating(query) ==
    IF Len(query.geoId) = 0 THEN ArgumentError
    ELSE LET ids == Range(SubSeq(query.geoId, 1, Min(Len(query.geoId), MaxGeoIds)))
         IN  Ok(SelectSeq(ElectionTable, LAMBDA r : r.e = query.electionId /\ r.g \in ids))

\* DataService.GetElectionData.
GetElectionData(query) ==
    IF Len(query.geoId) = 0 THEN ArgumentError
    ELSE IF Len(query.geoId) > MaxGeoIds THEN ArgumentError
    ELSE LET ids == Range(query.geoId)
         IN  Ok(SelectSeq(ElectionTable, LAMBDA r : r.e = query.electionId /\ r.g \in ids))

\* The columns of a row the census query selects: TraitId, GeoId, Value.
CensusRow(r) == [t |-> r.t, g |-> r.g, v |-> r.v]

\* Mutant: the query without its trait_id = ANY(@traitId) condition.
GetCensusData_anyTrait(query) ==
    IF Len(query.geoId) = 0 THEN ArgumentError
    ELSE IF Len(query.geoId) > MaxGeoIds THEN ArgumentError
    ELSE IF Len(query.traitId) = 0 THEN ArgumentError
    ELSE IF Len(query.traitId) > MaxTraitIds THEN ArgumentError
    ELSE LET ids == Range(query.geoId)
             rows == SelectSeq(CensusTable, LAMBDA r :
                        r.c = query.censusId /\ r.gt = query.geoType /\ r.g \in ids)
         IN  Ok([i \in 1..Len(rows) |-> CensusRow(rows[i])])

\* DataService.GetCensusData.
GetCensusData(query) ==
    IF Len(query.geoId) = 0 THEN ArgumentError
    ELSE IF Len(query.geoId) > MaxGeoIds THEN ArgumentError
    ELSE IF Len(query.traitId) = 0 THEN ArgumentError
    ELSE IF Len(query.traitId) > MaxTraitIds THEN ArgumentError
    ELSE LET ids == Range(query.geoId)
             traits == Range(query.traitId)
             rows == SelectSeq(CensusTable, LAMBDA r :
                        r.c = query.censusId /\ r.t \in traits /\ r.gt = query.geoType /\ r.g \in ids)
         IN  Ok([i \in 1..Len(rows) |-> CensusRow(rows[i])])

MaxWkt == 3

\* The printable ASCII characters of codes 32 to 95, in code order.
AsciiLow ==
    << " ", "!", "\"", "#", "$", "%", "&", "'", "(", ")", "*", "+",
       ",", "-", ".", "/", "0", "1", "2", "3", "4", "5", "6", "7",
       "8", "9", ":", ";", "<", "=", ">", "?", "@", "A", "B", "C",
       "D", "E", "F", "G", "H", "I", "J", "K", "L", "M", "N", "O",
       "P", "Q", "R", "S", "T", "U", "V", "W", "X", "Y", "Z", "[",
       "\\", "]", "^", "_" >>

\* The printable ASCII characters of codes 97 to 126, in code order.
AsciiHigh ==
    << "a", "b", "c", "d", "e", "f", "g", "h", "i", "j", "k", "l",
       "m", "n", "o", "p", "q", "r", "s", "t", "u", "v", "w", "x",
       "y", "z", "{", "|", "}", "~" >>

Code(c) ==
    IF \E i \in DOMAIN AsciiLow : AsciiLow[i] = c
    THEN 31 + CHOOSE i \in DOMAIN AsciiLow : AsciiLow[i] = c
    ELSE 96 + CHOOSE i \in DOMAIN AsciiHigh : AsciiHigh[i] = c

\* Mutant: the character class without its comma.
InClass_noComma(c) ==
    \/ Code(c) \in Code("A")..Code("Z")
    \/ Code(c) \in Code("a")..Code("z")
    \/ Code(c) \in Code("0")..Code("9")
    \/ c \in {"(", ")", " "}

\* The character class A-Za-z0-9,() of the pattern: three code ranges and
\* four single characters.
InClass(c) ==
    \/ Code(c) \in Code("A")..Code("Z")
    \/ Code(c) \in Code("a")..Code("z")
    \/ Code(c) \in Code("0")..Code("9")
    \/ c \in {",", "(", ")", " "}

RECURSIVE ReplaceFrom(_, _, _)
\* Regex.Replace with the negated class and an empty replacement, scanning the
\* text from position i: every match (one character outside the class) is
\* replaced by nothing, or only the first count matches
\* when count is not negative.
ReplaceFrom(wkt, i, count) ==
    IF i > Len(wkt) THEN <<>>
    ELSE IF count # 0 /\ ~InClass(wkt[i]) THEN ReplaceFrom(wkt, i + 1, count - 1)
    ELSE <<wkt[i]>> \o ReplaceFrom(wkt, i + 1, count)

\* Mutant: only the first match is replaced.
SanitizeWKT_first(wkt) == ReplaceFrom(wkt, 1, 1)

\* MapService.SanitizeWKT; a text is the sequence of its characters.
SanitizeWKT(wkt) == ReplaceFrom(wkt, 1, 0 - 1)

\* The text POLYGON((1 1, 2 2)); DROP TABLE x--
InjectionText ==
    << "P", "O", "L", "Y", "G", "O", "N", "(", "(", "1", " ", "1",
       ",", " ", "2", " ", "2", ")", ")", ";", " ", "D", "R", "O",
       "P", " ", "T", "A", "B", "L", "E", " ", "x", "-", "-" >>

\* Characters on both sides of every edge of the class.
WktChars == {"A", "z", "9", ",", "(", " ", ";", "-", ".", "@", "[", "/"}

RECURSIVE Texts(_)
Texts(n) ==
    IF n = 0 THEN {<<>>}
    ELSE LET shorter == Texts(n - 1)
         IN  shorter \cup {t \o <<c>> : t \in {u \in shorter : Len(u) = n - 1}, c \in WktChars}

\* The texts given to SanitizeWKT: every printable character alone, every
\* text of up to MaxWkt characters of WktChars, and the injection text.
WktTexts ==
    {<<c>> : c \in Range(AsciiLow) \cup Range(AsciiHigh)} \cup Texts(MaxWkt) \cup {InjectionText}

\* Rows of map_shp for the bounding box requests: the boxes of the model the
\* geometry intersects (ST_Intersects with the envelope) and the geometry, as
\* the set of its vertices, each named by the tolerance (in ten-thousandths)
\* from which a simplification drops it.
MapShp ==
    { [id |-> "f1", mapId |-> 10, boxes |-> {"b1", "b2"}, geom |-> {2, 15, 500, 5000}],
      [id |-> "f2", mapId |-> 10, boxes |-> {"b2"}, geom |-> {4, 5000}],
      [id |-> "r1", mapId |-> 31, boxes |-> {"b1"}, geom |-> {3, 150, 5000}],
      [id |-> "r2", mapId |-> 32, boxes |-> {"b1", "b2"}, geom |-> {1500, 5000}] }

Boxes == {"b1", "b2", "b3"}

\* ST_CoverageSimplify(geom, tolerance) OVER (): the vertices that remain.
Simplify(geom, tolerance) == {v \in geom : v >= tolerance}

\* MapService.GetGeoJsonFromBounds: the features of the map that intersect the
\* envelope, with their geometry as stored.
GetGeoJsonFromBounds(mapId, box) ==
    Ok({[id |-> r.id, geom |-> r.geom] : r \in {x \in MapShp : x.mapId = mapId /\ box \in x.boxes}})

\* MapService.GetGeoJsonFromBoundsWithSimplify: the same features, simplified
\* with the tolerance of the zoom over the whole set.
GetGeoJsonFromBoundsWithSimplify(mapId, box, zoom) ==
    Ok({[id |-> r.id, geom |-> Simplify(r.geom, GetSimplifyTolerance(zoom))] :
            r \in {x \in MapShp : x.mapId = mapId /\ box \in x.boxes}})

\* The federal ridings, map 30, are served from map 31, and from map 32 up to zoom 9.
EffectiveMapId(mapId, zoom) ==
    IF mapId = 30 THEN (IF zoom <= 9 THEN 32 ELSE 31) ELSE mapId

\* GET /api/map/{mapId}/{west},{south},{east},{north}/{zoom}
MapByBounds(mapId, box, zoom) == GetGeoJsonFromBounds(EffectiveMapId(mapId, zoom), box)

Requests ==
    {[op |-> "GetGeoJsonFromIntersect", mapId |-> 30, table |-> t] : t \in ShapeTables}
    \cup {[op |-> "GetSimplifyTolerance", zoom |-> z] : z \in Zooms}
    \cup {[op |-> "GetElectionData", electionId |-> e, geoId |-> g] : e \in {43, 44, 45}, g \in GeoIdLists}
    \cup {[op |-> "GetCensusData", censusId |-> 1, geoType |-> "DA", traitId |-> t, geoId |-> g] :
            t \in TraitIdLists, g \in GeoIdLists}
    \cup {[op |-> "SanitizeWKT", wkt |-> t] : t \in WktTexts}
    \cup {[op |-> "MapByBounds", mapId |-> m, box |-> b, zoom |-> z] :
            m \in {10, 30}, b \in Boxes, z \in Zooms}

InitServer ==
    /\ request \in Requests
    /\ response = NoResponse

InitServerIdle ==
    /\ request = [op |-> "none"]
    /\ response = NoResponse

CallGetGeoJsonFromIntersect ==
    /\ request.op = "GetGeoJsonFromIntersect"
    /\ response.status = "none"
    /\ \E filterFirst \in BOOLEAN :
          response' = GetGeoJsonFromIntersect(request.table, request.mapId, filterFirst)
    /\ UNCHANGED request

CallGetSimplifyTolerance ==
    /\ request.op = "GetSimplifyTolerance"
    /\ response.status = "none"
    /\ response' = Ok(GetSimplifyTolerance(request.zoom))
    /\ UNCHANGED request

CallGetElectionData ==
    /\ request.op = "GetElectionData"
    /\ response.status = "none"
    /\ response' = GetElectionData(request)
    /\ UNCHANGED request

CallGetCensusData ==
    /\ request.op = "GetCensusData"
    /\ response.status = "none"
    /\ response' = GetCensusData(request)
    /\ UNCHANGED request

CallSanitizeWKT ==
    /\ request.op = "SanitizeWKT"
    /\ response.status = "none"
    /\ response' = Ok(SanitizeWKT(request.wkt))
    /\ UNCHANGED request

CallMapByBounds ==
    /\ request.op = "MapByBounds"
    /\ response.status = "none"
    /\ response' = MapByBounds(request.mapId, request.box, request.zoom)
    /\ UNCHANGED request

ServerOnly == UNCHANGED <<layerVars, quantVars, cacheVars, poleVars, mapVars, syncVars, appVars>>

NextServer ==
    \/ CallGetGeoJsonFromIntersect /\ ServerOnly
    \/ CallGetSimplifyTolerance /\ ServerOnly
    \/ CallGetElectionData /\ ServerOnly
    \/ CallGetCensusData /\ ServerOnly
    \/ CallSanitizeWKT /\ ServerOnly
    \/ CallMapByBounds /\ ServerOnly

(***************************************************************************)
(* The classification of loadCensusData on caches that hold every id of    *)
(* the layer: the load reaches its tail without a fetch.                   *)
(***************************************************************************)
\* What the census cache can hold for the feature g: rows of the traits 1 and
\* 2, in the order their fetches merged them.
BinGroups(g) ==
    LET one == {[t |-> 1, g |-> g, v |-> v] : v \in CensusShares}
        two == [t |-> 2, g |-> g, v |-> 125]
    IN  {<<>>, <<two>>} \cup {<<r>> : r \in one} \cup {<<r, two>> : r \in one}
            \cup {<<two, r>> : r \in one}

BinCaches ==
    {m \in [{"g1", "g2"} -> BinGroups("g1") \cup BinGroups("g2")] :
        \A k \in DOMAIN m : m[k] \in BinGroups(k)}

\* The (layer, trait, traits) arguments of the loads.
BinLoads == {<<l, t, ActiveIds>> : l \in CacheLayers, t \in {1, 2}}

InitBins ==
    /\ electionData = EmptyMap
    /\ censusData \in BinCaches
    /\ censusTraits = [t \in {ServerCensusTraits[i].id : i \in 1..Len(ServerCensusTraits)} |-> TraitById(t)]
    /\ getStyle = [l \in CacheLayers |-> NoStyle]
    /\ inflight = EmptyBag
    /\ last = Step("init", <<"none", 0, <<>>>>, <<>>, "none")
    /\ loaded = {}
    /\ purged = {}

NextBins ==
    \/ \E in \in BinLoads : loadCensusData(in[1], in[2], in[3]) /\ CacheOnly
    \/ \E l \in CacheLayers : \E i \in 1..Len(LayerIds(l)) : ApplyGetStyle(l, "census", LayerIds(l)[i]) /\ CacheOnly

(***************************************************************************)
(* getLegend.  The numbers are in tenths, as in getQuantiles; NaN is what   *)
(* undefined - 1 evaluates to.                                             *)
(***************************************************************************)
NaN == <<0, 0>>

\* v - d of JavaScript for a number or undefined v.
Minus(v, d) == IF IsNum(v) THEN Num(v[1] - d) ELSE NaN

\* The argument lists of the getLegend call of loadElectionData:
\* getLegend([100], [35, 25, 15, 0], colors, true).
ElectionLegendValues == <<1000>>

ElectionLegendBins == <<Num(350), Num(250), Num(150), Num(0)>>

\* `a` of the i-th iteration (1-based): values[0], or the boundary before less
\* 0.1 for a rate and 1 otherwise.
LegendFrom(values, bins, pct, i) ==
    IF i = 1 THEN At(values, 0) ELSE Minus(bins[i - 1], IF pct THEN 1 ELSE 10)

\* if (last !== b): `last` is 0 at first and the boundary before afterwards.
LegendPushed(bins, i) == (IF i = 1 THEN Num(0) ELSE bins[i - 1]) # bins[i]

RECURSIVE LegendBins(_, _, _, _)
LegendBins(values, bins, pct, i) ==
    IF i > Len(bins) THEN <<>>
    ELSE (IF LegendPushed(bins, i)
          THEN <<[bin |-> i, from |-> LegendFrom(values, bins, pct, i), to |-> bins[i],
                  color |-> ColorAt(ClassColors, i - 1)]>>
          ELSE <<>>) \o LegendBins(values, bins, pct, i + 1)

\* getLegend(values, bins, colors, pct): info.bins, unless toFixed is called on
\* undefined, which throws.
getLegend(values, bins, pct) ==
    IF LegendThrows(values, bins, pct)
    THEN [called |-> TRUE, pct |-> pct, throws |-> TRUE, bins |-> <<>>]
    ELSE [called |-> TRUE, pct |-> pct, throws |-> FALSE, bins |-> LegendBins(values, bins, pct, 1)]

\* loadCensusData: getLegend(values, bins, colors, trait.isRate) on the values
\* getQuantiles sorted and the boundaries it returned.
CallGetLegend(pct) ==
    /\ qPc = "done"
    /\ qLegend' = getLegend(qValues, qResult, pct)
    /\ qPc' = "legend"
    /\ UNCHANGED <<qValues, qResult>>

\* loadElectionData: the legend of the fixed boundaries.
CallElectionLegend ==
    /\ qPc = "call"
    /\ qValues' = ElectionLegendValues
    /\ qResult' = ElectionLegendBins
    /\ qLegend' = getLegend(ElectionLegendValues, ElectionLegendBins, TRUE)
    /\ qPc' = "electionLegend"

\* The lists loadCensusData can collect: empty when no id of the layer has a
\* value of the trait.
InitLegend ==
    /\ qValues \in UNION {SeqsOfLen(QuantileValues, n) : n \in 0..MaxLen}
    /\ qResult = <<>>
    /\ qPc = "call"
    /\ qLegend = NoLegend

QuantOnly == UNCHANGED <<layerVars, cacheVars, poleVars, serverVars, mapVars, syncVars, appVars>>

NextLegend ==
    \/ CallGetQuantiles /\ UNCHANGED qLegend /\ QuantOnly
    \/ \E pct \in BOOLEAN : CallGetLegend(pct) /\ QuantOnly
    \/ CallElectionLegend /\ QuantOnly

(***************************************************************************)
(* The Map component (Map.vue).  A selection runs until its next await of  *)
(* a fetch; the selections suspended at getFeature or at                   *)
(* getIntersectingFeatures are the tasks, the ones suspended inside a load *)
(* of data.ts are the calls in flight.  An await of a call that returns    *)
(* without fetching resumes before any other handler runs.                 *)
(***************************************************************************)
MaxTasks == 1

NoBoundary == [mapId |-> 0, featureId |-> 0]

\* The boundary features the user can pick.
Boundaries == {[mapId |-> 1, featureId |-> 7]}

NoTrait == [type |-> "none", id |-> 0, party |-> "", isRate |-> FALSE]

\* The traits of the radio list: the active election and census traits.
MapTraits == ElectionTraits \cup Range(ServerCensusTraits)

\* this.censusTraits.filter(t => t.active): the ids of the active census traits.
ActiveTraits == [i \in 1..Len(ServerCensusTraits) |-> ServerCensusTraits[i].id]

\* trait.mapId: the elections are drawn on map 1, the census on map 2.
MapIdOf(t) == IF t.type = "election" THEN 1 ELSE 2

\* 'Map-' + trait.mapId + '-' + boundary.mapId + '-' + boundary.featureId
LayerNameOf(t, b) ==
    "Map-" \o ToString(MapIdOf(t)) \o "-" \o ToString(b.mapId) \o "-" \o ToString(b.featureId)

\* The layer of the cache model whose ids are those of the features of the named
\* layer: the features of map 1 in the boundary are g1 and g2, those of map 2 g2.
CacheLayerOf(name) == IF name = "Map-1-1-7" THEN "A" ELSE "B"

\* f.geometry.type.replace('Polygon', 'LineString')
ToOutline(g) ==
    CASE g = "Polygon" -> "LineString"
      [] g = "MultiPolygon" -> "MultiLineString"
      [] OTHER -> g

\* The geometry types of the feature getFeature answers with.
BoundaryGeoms == <<"MultiPolygon">>

\* What getIntersectingFeatures answers with: the features of the map in the
\* boundary, or a collection whose features are null when no row matches.
IntersectAnswers(name) ==
    { [has |-> TRUE, geoms |-> IF name = "Map-1-1-7" THEN <<"Polygon", "MultiPolygon">>
                               ELSE <<"MultiPolygon">>],
      [has |-> FALSE, geoms |-> <<>>] }

Task(at, name) == [at |-> at, name |-> name]

Tasks == BagToSet(tasks)

\* findLayer, activeLayer, showLayer and addLayer on the registry ls and the
\* layer table l a handler has reached.
FindLayerIn(ls, l, name) ==
    LET hits == {i \in 1..Len(ls) : l[ls[i]].name = name}
    IN  IF hits = {} THEN 0
        ELSE ls[CHOOSE i \in hits : \A j \in hits : i <= j]

ActiveLayerIn(ls, l) ==
    LET hits == {i \in 1..Len(ls) : l[ls[i]].visible /\ l[ls[i]].type = "polygon"}
    IN  IF hits = {} THEN 0
        ELSE ls[CHOOSE i \in hits : \A j \in hits : i <= j]

OthersToHideIn(ls, l, o) ==
    {p \in Range(ls) : l[p].type = "polygon" /\ l[p].visible /\ p # o}

ShowLayerIn(ls, l, o) ==
    [p \in DOMAIN l |->
        IF p = o THEN [l[p] EXCEPT !.visible = TRUE, !.onMap = TRUE]
        ELSE IF p \in OthersToHideIn(ls, l, o) THEN [l[p] EXCEPT !.visible = FALSE, !.onMap = FALSE]
        ELSE l[p]]

AddLayerIn(ls, l, name, geoms) ==
    LET old == FindLayerIn(ls, l, name)
        new == Cardinality(DOMAIN l) + 1
        hidden == IF old # 0 THEN HideIn(l, old) ELSE l
        kept == IF old # 0 THEN RemoveFrom(ls, old) ELSE ls
        layer == [name |-> name, type |-> LayerTypeAfter(NoType, geoms),
                  ids |-> IdsAfter(<<>>, name, geoms, 1),
                  visible |-> FALSE, onMap |-> FALSE]
    IN  [layers |-> Append(kept, new),
         lay |-> [p \in DOMAIN l \cup {new} |-> IF p = new THEN layer ELSE hidden[p]],
         new |-> new]

Shown(ls, l, o) == [op |-> "showLayer", layer |-> o, hid |-> OthersToHideIn(ls, l, o)]

CacheIdle == UNCHANGED <<electionData, censusData, censusTraits, getStyle, inflight, last, loaded, purged>>

\* loadData with the registry ls, l: the load of the selected trait is called
\* with the active layer.  (refreshLayer, after the load, changes no state.)
loadData(ls, l, b, t) ==
    LET layer == ActiveLayerIn(ls, l)
    IN  IF b = NoBoundary \/ t = NoTrait \/ layer = 0
        THEN CacheIdle
        ELSE IF t.type = "election"
        THEN loadElectionData(CacheLayerOf(l[layer].name), t)
        ELSE loadCensusData(CacheLayerOf(l[layer].name), t.id, ActiveTraits)

\* `await this.loadFeatures(); await this.loadData()` from the registry ls, l
\* (last MapHelper operation h) with the other suspended selections bag: a
\* layer of the name is shown and the data loaded, or the selection suspends at
\* getIntersectingFeatures.
loadFeatures(ls, l, h, b, t, bag) ==
    IF b = NoBoundary \/ t = NoTrait
    THEN /\ layers' = ls /\ lay' = l /\ hist' = h /\ tasks' = bag
         /\ loadData(ls, l, b, t)
    ELSE LET name == LayerNameOf(t, b)
             layer == FindLayerIn(ls, l, name)
         IN  IF layer # 0
             THEN /\ layers' = ls
                  /\ lay' = ShowLayerIn(ls, l, layer)
                  /\ hist' = Shown(ls, l, layer)
                  /\ tasks' = bag
                  /\ loadData(ls, ShowLayerIn(ls, l, layer), b, t)
             ELSE /\ BagCardinality(bag) < MaxTasks
                  /\ tasks' = Suspend(bag, Task("getIntersectingFeatures", name))
                  /\ layers' = ls /\ lay' = l /\ hist' = h
                  /\ CacheIdle

selectBoundary(b) ==
    /\ BagCardinality(tasks) < MaxTasks
    /\ boundary' = b
    /\ tasks' = Suspend(tasks, Task("getFeature", "Boundary"))
    /\ UNCHANGED <<mapTrait, layerVars>>
    /\ CacheIdle

\* getFeature resolves: the outline is added and shown, then the features and
\* the data of the selection are loaded.
GetFeatureResolve(task) ==
    /\ task.at = "getFeature"
    /\ Cardinality(LayerObjs) < MaxLayerObjs
    /\ LET outline == [i \in 1..Len(BoundaryGeoms) |-> ToOutline(BoundaryGeoms[i])]
           added == AddLayerIn(layers, lay, "Boundary", outline)
       IN  loadFeatures(added.layers, ShowLayerIn(added.layers, added.lay, added.new),
                        Shown(added.layers, added.lay, added.new),
                        boundary, mapTrait, Resume(tasks, task))
    /\ UNCHANGED <<boundary, mapTrait>>

selectTrait(t) ==
    /\ mapTrait' = t
    /\ loadFeatures(layers, lay, hist, boundary, t, tasks)
    /\ UNCHANGED boundary

\* getIntersectingFeatures resolves: without features loadFeatures returns;
\* otherwise the layer is added and shown.  Then loadData runs with this.trait
\* and this.boundary as they are now.
IntersectResolve(task, geojson) ==
    /\ task.at = "getIntersectingFeatures"
    /\ tasks' = Resume(tasks, task)
    /\ IF ~geojson.has
       THEN /\ UNCHANGED layerVars
            /\ loadData(layers, lay, boundary, mapTrait)
       ELSE LET added == AddLayerIn(layers, lay, task.name, geojson.geoms)
                shown == ShowLayerIn(added.layers, added.lay, added.new)
            IN  /\ Cardinality(LayerObjs) < MaxLayerObjs
                /\ layers' = added.layers
                /\ lay' = shown
                /\ hist' = Shown(added.layers, added.lay, added.new)
                /\ loadData(added.layers, shown, boundary, mapTrait)
    /\ UNCHANGED <<boundary, mapTrait>>

\* getFeature or getIntersectingFeatures rejects: the selection ends there.
GeometryReject(task) ==
    /\ tasks' = Resume(tasks, task)
    /\ UNCHANGED <<boundary, mapTrait, layerVars>>
    /\ CacheIdle

InitMap ==
    /\ boundary = NoBoundary
    /\ mapTrait = NoTrait
    /\ tasks = EmptyBag

MapOnly == UNCHANGED <<quantVars, track, poleVars, serverVars, syncVars, appVars>>

NextMap ==
    \/ \E b \in Boundaries : selectBoundary(b) /\ MapOnly
    \/ \E t \in MapTraits : selectTrait(t) /\ MapOnly
    \/ \E task \in Tasks : GetFeatureResolve(task) /\ MapOnly
    \/ \E task \in Tasks : \E geojson \in IntersectAnswers(task.name) : IntersectResolve(task, geojson) /\ MapOnly
    \/ \E task \in Tasks : GeometryReject(task) /\ MapOnly
    \/ \E call \in InFlight : ElectionDataResolve(call) /\ CacheOnly
    \/ \E call \in InFlight : CensusDataResolve(call) /\ CacheOnly
    \/ \E call \in InFlight : DataReject(call) /\ CacheOnly
    \/ \E call \in InFlight : TraitsResolve(call) /\ CacheOnly
    \/ \E call \in InFlight : TraitsReject(call) /\ CacheOnly

(***************************************************************************)
(* Viewport synchronisation of the map instances of one window             *)
(* (MapHelper.attachBoundsChangedHandlers).  Each instance has its closure *)
(* variables locMouseOver (over) and locTimer (timer), its viewport        *)
(* (view), the cause of a bounds_changed event the map has still to        *)
(* deliver (changed), whether this.map is set (map) and whether its        *)
(* boundsHandler is still registered on the window (listening).            *)
(***************************************************************************)
\* The two MapHelper instances of the dual view.
Helpers == {1, 2}

\* Zoom and centre of a map, taken together.
Views == {"v0", "v1"}

\* No timer is pending.
NoTimer == [set |-> FALSE, view |-> "v0", cause |-> "none"]

\* No event was dispatched yet.
NoDispatch == [from |-> 0, over |-> FALSE, cause |-> "none", appliedOver |-> FALSE]

\* map.addListener('mouseover'): the pointer enters the map of instance i.
MouseOver(i) ==
    /\ sync[i].map
    /\ pointer = 0
    /\ pointer' = i
    /\ sync' = [sync EXCEPT ![i].over = TRUE]
    /\ UNCHANGED syncLast

\* map.addListener('mouseout'): the pointer leaves the map of instance i.
MouseOut(i) ==
    /\ sync[i].map
    /\ pointer = i
    /\ pointer' = 0
    /\ sync' = [sync EXCEPT ![i].over = FALSE]
    /\ UNCHANGED syncLast

\* map.addListener('drag'): the user moves the map under the pointer to view v;
\* the map will deliver bounds_changed.
Drag(i, v) ==
    /\ sync[i].map
    /\ pointer = i
    /\ v # sync[i].view
    /\ sync' = [sync EXCEPT ![i].over = TRUE, ![i].view = v, ![i].changed = "user"]
    /\ UNCHANGED <<pointer, syncLast>>

\* map.addListener('bounds_changed'): with locMouseOver set, the viewport is
\* captured and the timer is replaced by a new one.
BoundsChanged(i) ==
    /\ sync[i].map
    /\ sync[i].changed # "none"
    /\ sync' = [sync EXCEPT ![i].changed = "none",
                            ![i].timer = IF sync[i].over
                                         THEN [set |-> TRUE, view |-> sync[i].view, cause |-> sync[i].changed]
                                         ELSE @]
    /\ UNCHANGED <<pointer, syncLast>>

\* boundsHandler of instance j on the event with the given view.
Received(h, view) ==
    IF ~h.listening THEN h
    ELSE IF ~h.map THEN [h EXCEPT !.listening = FALSE]
    ELSE IF ~h.over
         THEN [h EXCEPT !.view = view,
                        !.changed = IF view # h.view THEN "received" ELSE @]
         ELSE h

\* The instances whose boundsHandler applies the event.
Appliers == {j \in Helpers : sync[j].listening /\ sync[j].map /\ ~sync[j].over}

\* The timer of instance i fires, 100 ms after the last captured
\* bounds_changed: the event is dispatched on the window and every registered
\* boundsHandler runs, the one of instance i included.
TimerFire(i) ==
    /\ sync[i].timer.set
    /\ syncLast' = [from |-> i, over |-> pointer = i, cause |-> sync[i].timer.cause,
                    appliedOver |-> pointer \in Appliers]
    /\ sync' = [j \in Helpers |->
                  Received(IF j = i THEN [sync[j] EXCEPT !.timer = NoTimer] ELSE sync[j],
                           sync[i].timer.view)]
    /\ UNCHANGED pointer

\* MapHelper.destroy: the listeners of the map are cleared and this.map is null;
\* the timer and the window listener stay.
Destroy(i) ==
    /\ sync[i].map
    /\ sync' = [sync EXCEPT ![i].map = FALSE, ![i].changed = "none"]
    /\ pointer' = IF pointer = i THEN 0 ELSE pointer
    /\ UNCHANGED syncLast

InitSync ==
    /\ sync = [i \in Helpers |->
                [over |-> FALSE, view |-> "v0", changed |-> "none", timer |-> NoTimer,
                 map |-> TRUE, listening |-> TRUE]]
    /\ pointer = 0
    /\ syncLast = NoDispatch

SyncOnly == UNCHANGED <<layerVars, quantVars, cacheVars, poleVars, serverVars, mapVars, appVars>>

NextSync ==
    \/ \E i \in Helpers : MouseOver(i) /\ SyncOnly
    \/ \E i \in Helpers : MouseOut(i) /\ SyncOnly
    \/ \E i \in Helpers : \E v \in Views : Drag(i, v) /\ SyncOnly
    \/ \E i \in Helpers : BoundsChanged(i) /\ SyncOnly
    \/ \E i \in Helpers : TimerFire(i) /\ SyncOnly
    \/ \E i \in Helpers : Destroy(i) /\ SyncOnly

(***************************************************************************)
(* The App's loading flag (App.vue) and the loadData calls of its two Map  *)
(* instances.  Both Maps are bound with @loading="loading = $event".       *)
(***************************************************************************)
\* map1 and map2.
Maps == {1, 2}

\* A loadData call suspended between emit('loading', true) and
\* emit('loading', false): in loadElectionData or loadCensusData, at the fetch
\* of the census traits or at the fetch of the data.
Load(kind, stage) == [kind |-> kind, stage |-> stage]

LoadsBegun == {Load("election", "data"), Load("census", "traits"), Load("census", "data")}

\* Map.loadData of instance i, up to the await of a load that fetches.
LoadDataBegin(i, load) ==
    /\ BagCardinality(mapLoads[i]) < MaxCalls
    /\ loading' = TRUE
    /\ mapLoads' = [mapLoads EXCEPT ![i] = Suspend(@, load)]

\* Map.loadData of instance i when the load fetches nothing: both emissions
\* happen before any other handler runs.
LoadDataCached(i) ==
    /\ loading' = FALSE
    /\ UNCHANGED mapLoads

\* getCensusTraits resolves; the load goes on to its data fetch (more) or has
\* nothing missing and returns, and loadData emits 'loading' false.
LoadTraitsResolve(i, load, more) ==
    /\ load.stage = "traits"
    /\ IF more
       THEN /\ mapLoads' = [mapLoads EXCEPT ![i] = Suspend(Resume(@, load), Load(load.kind, "data"))]
            /\ UNCHANGED loading
       ELSE /\ mapLoads' = [mapLoads EXCEPT ![i] = Resume(@, load)]
            /\ loading' = FALSE

\* The data fetch resolves: the load returns and loadData emits 'loading' false.
LoadDataResolve(i, load) ==
    /\ load.stage = "data"
    /\ mapLoads' = [mapLoads EXCEPT ![i] = Resume(@, load)]
    /\ loading' = FALSE

\* A fetch rejects: loadData ends at its await and emits nothing.
LoadReject(i, load) ==
    /\ mapLoads' = [mapLoads EXCEPT ![i] = Resume(@, load)]
    /\ UNCHANGED loading

InitApp ==
    /\ loading = FALSE
    /\ mapLoads = [i \in Maps |-> EmptyBag]

AppOnly == UNCHANGED <<layerVars, quantVars, cacheVars, poleVars, serverVars, mapVars, syncVars>>

NextApp ==
    \/ \E i \in Maps : \E load \in LoadsBegun : LoadDataBegin(i, load) /\ AppOnly
    \/ \E i \in Maps : LoadDataCached(i) /\ AppOnly
    \/ \E i \in Maps : \E load \in BagToSet(mapLoads[i]) : \E more \in BOOLEAN : LoadTraitsResolve(i, load, more) /\ AppOnly
    \/ \E i \in Maps : \E load \in BagToSet(mapLoads[i]) : LoadDataResolve(i, load) /\ AppOnly
    \/ \E i \in Maps : \E load \in BagToSet(mapLoads[i]) : LoadReject(i, load) /\ AppOnly

(***************************************************************************)
(* The specifications: one per part, the other parts staying as built.     *)
(***************************************************************************)
InitIdle(tracked) == InitLayers /\ InitQuantIdle /\ InitCache /\ track = tracked /\ InitPoleIdle /\ InitServerIdle /\ InitMap /\ InitSync /\ InitApp

InitAll == InitIdle({})

InitQuantilesAll == InitLayers /\ InitQuantiles /\ InitCache /\ track = {} /\ InitPoleIdle /\ InitServerIdle /\ InitMap /\ InitSync /\ InitApp

InitAllLoaded == InitIdle({"loaded"})

InitAllPurged == InitIdle({"purged"})

SpecLayers == InitAll /\ [][NextLayers]_vars

SpecQuantiles == InitQuantilesAll /\ [][NextQuantiles]_vars

InitLegendAll ==
    InitLayers /\ InitLegend /\ InitCache /\ track = {} /\ InitPoleIdle /\ InitServerIdle /\ InitMap /\ InitSync /\ InitApp

\* getQuantiles followed by getLegend, and the legend of an election.
SpecLegend == InitLegendAll /\ [][NextLegend]_vars

InitPoleAll == InitLayers /\ InitQuantIdle /\ InitCache /\ track = {} /\ InitPole /\ InitServerIdle /\ InitMap /\ InitSync /\ InitApp

InitServerAll == InitLayers /\ InitQuantIdle /\ InitCache /\ track = {} /\ InitPoleIdle /\ InitServer /\ InitMap /\ InitSync /\ InitApp

\* The services of the server, one call each.
SpecServer == InitServerAll /\ [][NextServer]_vars

InitCacheSizedAll ==
    InitLayers /\ InitQuantIdle /\ InitCacheSized /\ track = {} /\ InitPoleIdle /\ InitServerIdle /\ InitMap /\ InitSync /\ InitApp

\* The data cache with a layer of more than 2000 features and more than 50
\* active census traits.
SpecCacheSized == InitCacheSizedAll /\ [][NextCacheSized]_vars

InitBinsAll ==
    InitLayers /\ InitQuantIdle /\ InitBins /\ track = {} /\ InitPoleIdle /\ InitServerIdle /\ InitMap /\ InitSync /\ InitApp

\* loadCensusData on caches that hold every id, and the styles it installs.
SpecBins == InitBinsAll /\ [][NextBins]_vars

\* The viewport synchronisation of two map instances.
SpecSync == InitAll /\ [][NextSync]_vars

\* The loading flag of the App and the loads of its two Maps.
SpecApp == InitAll /\ [][NextApp]_vars

InitCacheEmptyAll ==
    InitLayers /\ InitQuantIdle /\ InitCacheEmpty /\ track = {} /\ InitPoleIdle /\ InitServerIdle /\ InitMap /\ InitSync /\ InitApp

\* The data cache with a layer that has no ids.
SpecCacheEmpty == InitCacheEmptyAll /\ [][NextCacheEmpty]_vars

InitStyleAll ==
    InitLayers /\ InitQuantIdle /\ InitStyle /\ track = {} /\ InitPoleIdle /\ InitServerIdle /\ InitMap /\ InitSync /\ InitApp

\* The styling function of a layer, applied to the features of the layer.
SpecStyle == InitStyleAll /\ [][NextStyle]_vars

\* findPosition, step by step.
SpecPole == InitPoleAll /\ [][NextPole]_vars

\* findPosition runs on while it can: a JavaScript call is not suspended.
SpecPoleFair == SpecPole /\ WF_vars(NextPole)

\* The cache engine.
SpecCache == InitAll /\ [][NextCache]_vars

\* The Map component with the layer manager and the data cache behind it.
SpecMap == InitAll /\ [][NextMap]_vars

\* The cache engine, with the record of the loads that resolved.
SpecCacheLoaded == InitAllLoaded /\ [][NextCache]_vars

\* The cache engine, with the record of the purged geoIds.
SpecCachePurged == InitAllPurged /\ [][NextCache]_vars

(***************************************************************************)
(* Claims about getQuantiles (checked under SpecQuantiles)                 *)
(***************************************************************************)
NonIncreasing(q) ==
    \A i \in 1..(Len(q) - 1) : IsNum(q[i]) /\ IsNum(q[i + 1]) /\ q[i][1] >= q[i + 1][1]

\* C9: for every non-empty list of numbers (of any length, 1 and 2 included)
\* getQuantiles(values, 4) returns exactly 4 numeric boundaries
\* b0 >= b1 >= b2 >= b3, each an element of the list or the nudged value.
C9_FourNumericBoundaries ==
    qPc = "done" =>
        /\ Len(qResult) = 4
        /\ \A i \in 1..4 : IsNum(qResult[i])
        /\ NonIncreasing(qResult)
        /\ \A i \in 1..4 : qResult[i] = Num(Nudge) \/ \E j \in 1..Len(qValues) : qResult[i] = Num(qValues[j])

\* C10 as stated: the lowest (4th, last) boundary returned by getQuantiles is
\* never exactly 0.
C10_LastNeverZero ==
    qPc = "done" => qResult[4] # Num(0)

\* C10 as amended: the first (highest) boundary is never exactly 0: when the
\* value at index Math.round(length / 4) of the sorted list is 0 the first
\* boundary is 0.1, otherwise it is that value; the last boundary is the minimum
\* of the list, unchanged (so it is 0 when the minimum is 0).
C10_FirstNeverZero ==
    qPc = "done" =>
        LET first == At(qValues, RoundDiv(Len(qValues), 4))
        IN  /\ qResult[1] # Num(0)
            /\ qResult[1] = (IF first = Num(0) THEN Num(Nudge) ELSE first)
            /\ qResult[4] = Num(qValues[Len(qValues)])
            /\ \A j \in 1..Len(qValues) : qValues[j] >= qValues[Len(qValues)]

\* C10 witness: a list of zeros with outliers, whose first boundary was computed
\* as 0 and replaced, and whose last boundary is still 0.
C10_Witness ==
    /\ qPc = "done"
    /\ Len(qValues) >= 4
    /\ qValues[1] > 0
    /\ At(qValues, RoundDiv(Len(qValues), 4)) = Num(0)
    /\ qResult[1] = Num(Nudge)
    /\ qResult[4] = Num(0)

(***************************************************************************)
(* Claims about the layer manager (checked under SpecLayers)               *)
(***************************************************************************)
VisiblePolygons == {p \in Range(layers) : lay[p].type = "polygon" /\ lay[p].visible}

VisiblePolylines(l) == {p \in DOMAIN l : l[p].type = "polyline" /\ l[p].visible}

\* C1: after any sequence of addLayer, showLayer, hideLayer, hideAllLayers,
\* removeLayer and refreshLayer calls, at most one registered layer of type
\* polygon is visible, and activeLayer() is that layer (or none).
C1_AtMostOneVisiblePolygon ==
    /\ Cardinality(VisiblePolygons) <= 1
    /\ VisiblePolygons = IF activeLayer = 0 THEN {} ELSE {activeLayer}

\* C1 witness: showLayer has just hidden another visible polygon layer, and both
\* polygon layers are still registered.
C1_Witness ==
    /\ hist.op = "showLayer"
    /\ hist.hid # {}
    /\ hist.hid \subseteq Range(layers)
    /\ activeLayer = hist.layer

\* C2: for distinct registered polygon layers a (visible) and b, showLayer(b)
\* ends with a hidden and b visible, and every polyline layer visible before
\* the call is visible after it; the same holds for polylines across
\* hideLayer(a).
C2_MutualExclusion ==
    [][\A a \in Range(layers), b \in Range(layers) :
          (/\ a # b
           /\ lay[a].type = "polygon" /\ lay[b].type = "polygon"
           /\ lay[a].visible)
          => /\ showLayer(b) =>
                  /\ ~lay'[a].visible
                  /\ lay'[b].visible
                  /\ VisiblePolylines(lay) \subseteq VisiblePolylines(lay')
             /\ hideLayer(a) =>
                  /\ ~lay'[a].visible
                  /\ VisiblePolylines(lay) \subseteq VisiblePolylines(lay')
      ]_vars

\* C2 witness: showLayer(b) on a registered polygon layer has hidden the polygon
\* layer that was visible, while a registered polyline layer is visible.
C2_Witness ==
    /\ hist.op = "showLayer"
    /\ hist.layer \in Range(layers)
    /\ lay[hist.layer].type = "polygon"
    /\ \E a \in hist.hid : a \in Range(layers) /\ ~lay[a].visible
    /\ \E p \in Range(layers) : lay[p].type = "polyline" /\ lay[p].visible

\* The layer objects removeLayer has unregistered.
Disposed == LayerObjs \ Range(layers)

\* C21: once removeLayer(layer) has run, findLayer does not return the layer
\* and no later operation, showLayer on the same object included, makes it
\* visible again.
C21_DisposedIsTerminal ==
    \A o \in Disposed :
        /\ findLayer(lay[o].name) # o
        /\ ~lay[o].visible

\* Registered layers with the name n.
Named(ls, l, n) == {i \in 1..Len(ls) : l[ls[i]].name = n}

\* C22: layer names are unique in the manager after any sequence of
\* operations; addLayer with a registered name hides and unregisters the old
\* layer and registers the new one, hidden, as the only layer of that name.
C22_UniqueNames ==
    /\ [](\A o \in Range(layers) : Cardinality(Named(layers, lay, lay[o].name)) = 1)
    /\ [][\A in \in AddLayerInputs :
            addLayer(in[1], in[2]) =>
                LET old == findLayer(in[1])
                    new == layers'[Len(layers')]
                IN  /\ old # 0 => ~lay'[old].visible /\ old \notin Range(layers')
                    /\ new \notin LayerObjs
                    /\ ~lay'[new].visible
                    /\ {layers'[i] : i \in Named(layers', lay', in[1])} = {new}
        ]_vars

\* C22 witness: addLayer has just registered a layer under the name of a
\* layer object that is no longer registered.
C22_Witness ==
    /\ hist.op = "addLayer"
    /\ \E o \in Disposed : lay[o].name = lay[hist.layer].name
    /\ Cardinality(Named(layers, lay, lay[hist.layer].name)) = 1
    /\ Len(layers) >= 2

\* C25: showLayer of a layer that is not of type polygon leaves the visible
\* flag of every polygon layer unchanged.
C25_OnlyPolygonHidesPolygons ==
    (hist.op = "showLayer" /\ lay[hist.layer].type # "polygon") => hist.hid = {}

(***************************************************************************)
(* Claims about the data cache (checked under SpecCache, SpecCacheLoaded   *)
(* and SpecCachePurged)                                                    *)
(***************************************************************************)
\* The steps in which loadElectionData or loadCensusData is called.
CallOps == {"loadElectionData", "loadCensusData", "loadCensusTraits"}

\* The steps in which a load reaches the test of `missing`.
MissingOps == {"loadElectionData", "loadCensusData", "traitsResolve"}

\* Whether the id g of a load has a key in the cache the load reads.
Cached(eData, cData, key, g) ==
    IF key[1] = "election" THEN ElectionKey(key[2], g) \in DOMAIN eData
    ELSE CensusKey(g) \in DOMAIN cData

\* What getTooltip returns, for every id and every kind of trait.
Tooltips(eData, cData, cTraits) ==
    [g \in Range(GeoOrder) |->
        <<[t \in ElectionTraits |-> ElectionTooltip(eData, t.id, g)], CensusTooltip(cData, cTraits, g)>>]

\* The data fetches of the load a step record is of: one where it resumed from
\* its fetch or issued one, none otherwise.
Fetches(step) == IF step.op = "dataResolve" \/ step.req # <<>> THEN 1 ELSE 0

\* C3 as stated: when a load is called right after a load with the same layer
\* ids resolved (no purge in between), the two calls issue exactly one data
\* fetch in total, and getTooltip returns the same for every id after the first
\* and after the second call.
C3_ExactlyOneFetch ==
    [][(/\ last.outcome = "resolved"
        /\ last.key \in loaded
        /\ last'.op \in CallOps
        /\ last'.key = last.key)
       => /\ Fetches(last) + Fetches(last') = 1
          /\ Tooltips(electionData', censusData', censusTraits')
               = Tooltips(electionData, censusData, censusTraits)
      ]_vars

\* C3 as amended: a load called after a load with the same layer ids resolved,
\* with no purge since that load was called, issues no data fetch, resolves or
\* throws at once and changes neither cache, so getTooltip returns the same for
\* every id before and after it; and a load requests exactly the ids of its
\* layer that have no key in the cache, so that the two calls issue at most one
\* fetch in total: one when an id of the layer was absent at the first call,
\* none when every id was cached.
C3_SecondCallNoFetch ==
    [][/\ (last'.op \in CallOps /\ last'.key \in loaded)
          => /\ last'.req = <<>>
             /\ last'.outcome # "pending"
             /\ UNCHANGED <<electionData, censusData, censusTraits, inflight>>
             /\ Tooltips(electionData', censusData', censusTraits')
                  = Tooltips(electionData, censusData, censusTraits)
       /\ (last'.op \in MissingOps)
          => /\ last'.req = SelectSeq(last'.key[3],
                                LAMBDA g : ~Cached(electionData, censusData, last'.key, g))
             /\ (last'.outcome = "pending") = (last'.req # <<>>)
      ]_vars

\* C3 witness: loadCensusData over layer A has resolved at its call without a
\* fetch, the ids of the layer being cached (with rows, and with a placeholder)
\* by an earlier load that resolved.
C3_Witness ==
    /\ last.op = "loadCensusData"
    /\ last.outcome = "resolved"
    /\ last.req = <<>>
    /\ last.key = LoadKey("census", 1, "A")
    /\ last.key \in loaded
    /\ CensusTooltip(censusData, censusTraits, "g1").results # <<>>
    /\ Has(censusData, "g2") /\ censusData["g2"] = <<>>

\* C4: under any interleaving of loads, resolutions and purges, a data fetch
\* request never contains an id whose key is in the cache when the request is
\* issued; a key of the election cache never leaves it and a key of the census
\* cache leaves it only in purgeCensusData, so a populated key (an empty list
\* included) is requested again only after a purge removed it.
C4_NeverRequestsCachedKey ==
    [][/\ (last'.outcome = "pending" /\ last'.req # <<>>)
          => \A i \in 1..Len(last'.req) :
                ~Cached(electionData, censusData, last'.key, last'.req[i])
       /\ DOMAIN electionData \subseteq DOMAIN electionData'
       /\ (DOMAIN censusData \subseteq DOMAIN censusData') \/ last'.op = "purgeCensusData"
      ]_vars

\* C4 witness: g2 is populated with an empty list and a load over layer A
\* (g1, g2) has just requested g1 alone.
C4_Witness ==
    /\ last.outcome = "pending"
    /\ last.key = LoadKey("census", 1, "A")
    /\ last.req = <<"g1">>
    /\ Has(censusData, "g2") /\ censusData["g2"] = <<>>

\* C5: when the data fetch of a load rejects, the load is abandoned (no style is
\* set) and the rejection writes nothing: the election and census caches are
\* unchanged, no placeholder and no row; a load over the same ids called next
\* requests again the ids that are still absent.
C5_RejectLeavesCaches ==
    [][/\ (last'.op = "dataReject")
          => UNCHANGED <<electionData, censusData, censusTraits, getStyle>>
       /\ (last.op = "dataReject" /\ last'.op \in CallOps /\ last'.key = last.key)
          => /\ \A i \in 1..Len(last.req) :
                    ~Cached(electionData, censusData, last.key, last.req[i])
                    => \E j \in 1..Len(last'.req) : last'.req[j] = last.req[i]
             /\ \A i \in 1..Len(last.req) :
                    Cached(electionData', censusData', last.key, last.req[i])
                    = Cached(electionData, censusData, last.key, last.req[i])
      ]_vars

\* C5 witness: the fetch of g1 for layer A has just rejected; g1 has no key and
\* the key of g2, cached before, is as it was.
C5_Witness ==
    /\ last.op = "dataReject"
    /\ last.key = LoadKey("census", 1, "A")
    /\ last.req = <<"g1">>
    /\ ~Has(censusData, "g1")
    /\ Has(censusData, "g2")

\* C6: at the moment a loadElectionData or loadCensusData call resolves, every
\* id in layer.ids has a key in the corresponding cache, whatever loads or
\* purges were interleaved while the call awaited its fetch.
C6_AllIdsCachedAtResolve ==
    last.outcome = "resolved"
        => \A i \in 1..Len(last.key[3]) :
              Cached(electionData, censusData, last.key, last.key[3][i])

\* C7: purgeCensusData removes every entry of the census data cache and leaves
\* the election data cache and the census trait cache unchanged.
C7_PurgeFrame ==
    [][purgeCensusData
       => /\ censusData' = EmptyMap
          /\ electionData' = electionData
          /\ censusTraits' = censusTraits
      ]_vars

\* C7 witness: a purge has just removed keys from the census cache while the
\* election cache and the trait cache hold entries.
C7_Witness ==
    /\ last.op = "purgeCensusData"
    /\ purged # {}
    /\ censusData = EmptyMap
    /\ electionData # EmptyMap
    /\ censusTraits # EmptyMap

\* C8: after purgeCensusData, getTooltip for a census trait and a geoId that was
\* cached before the purge returns the no-data result (an empty results list)
\* in every state until a load fetches that geoId again after the purge.
C8_PurgedTooltipEmpty ==
    \A g \in purged : CensusTooltip(censusData, censusTraits, g).results = <<>>

(***************************************************************************)
(* Claims about PoleLabelPlacement (checked under SpecPole, SpecPoleFair)  *)
(***************************************************************************)
\* C11: findPosition terminates for every polygon: the refinement loop halves
\* the cell size on each iteration and stops once it is <= the precision, also
\* when the initial cell size is larger than the precision, and the grid search
\* loops are finite.
C11_Terminates == <>(pPc = "returned")

\* C12: for every simple polygon with at least 3 vertices and no holes, the
\* anchor point returned by findPosition lies inside the polygon (on an edge at
\* worst); it is never the placeholder (0, 0) left when no grid point passed the
\* containment test.
C12_AnchorInside ==
    pPc = "returned" => Locate(<<pBest.x, pBest.y>>, pPolygon) # "out"


\* How many copies of the call the bag holds.
Copies(bag, c) == IF c \in DOMAIN bag THEN bag[c] ELSE 0

\* The step dispatches the data fetch of the call c.
Dispatched(c) == c.stage = "data" /\ Copies(inflight', c) > Copies(inflight, c)

\* A data fetch in flight of the same cache (and election) as c requests g.
RequestedInFlight(c, g) ==
    \E d \in InFlight :
        /\ d.stage = "data"
        /\ d.kind = c.kind
        /\ d.trait.type = "election" => d.trait.id = c.trait.id
        /\ g \in Range(d.missing)

\* C26: a load started while another fetch for an id of its layer is still in
\* flight, the id having no key in the cache, dispatches a fetch that contains
\* that id as well.
C26_BothFetchSharedId ==
    [][\A c \in BagToSet(inflight') :
          Dispatched(c) =>
              \A g \in Range(LayerIds(c.layer)) :
                  (/\ ~Cached(electionData, censusData, LoadKey(c.kind, c.trait.id, c.layer), g)
                   /\ RequestedInFlight(c, g))
                  => g \in Range(c.missing)
      ]_vars

\* C26 witness: two data fetches in flight, for different layers, request
\* the same id.
C26_Witness ==
    \E c \in InFlight, d \in InFlight :
        /\ c.stage = "data" /\ d.stage = "data" /\ c.kind = d.kind
        /\ c.layer # d.layer
        /\ Range(c.missing) \cap Range(d.missing) # {}

IsPrefix(a, b) == Len(a) <= Len(b) /\ \A i \in 1..Len(a) : a[i] = b[i]

NoTwoOfParty(eData) ==
    \A k \in DOMAIN eData : \A i, j \in 1..Len(eData[k]) : eData[k][i].p = eData[k][j].p => i = j

NoTwoOfTrait(cData) ==
    \A k \in DOMAIN cData : \A i, j \in 1..Len(cData[k]) : cData[k][i].t = cData[k][j].t => i = j

Keeps(old, new) == \A k \in DOMAIN old : k \in DOMAIN new /\ IsPrefix(old[k], new[k])

\* C27: no cache entry ever holds two rows of the same party (election) or of
\* the same trait (census), also after the merge of a response that repeats
\* its rows, and no step but the purge removes or replaces a stored row.
C27_IdempotentMerge ==
    /\ [](/\ NoTwoOfParty(electionData)
          /\ NoTwoOfTrait(censusData)
          /\ LET repeated == getElectionData(44, <<"g1", "g1">>)
                 merged == MergeElection(electionData, 44, repeated)
             IN  NoTwoOfParty(merged) /\ Keeps(electionData, merged)
          /\ LET repeated == getCensusData(<<1, 2, 1>>, <<"g1", "g1">>)
                 merged == MergeCensus(censusData, repeated)
             IN  NoTwoOfTrait(merged) /\ Keeps(censusData, merged))
    /\ [][/\ Keeps(electionData, electionData')
          /\ last'.op # "purgeCensusData" => Keeps(censusData, censusData')
      ]_vars

\* C27 witness: a fetch has resolved and stored the rows of g1 while another
\* fetch for g1 is still in flight.
C27_Witness ==
    /\ last.op = "dataResolve"
    /\ last.outcome = "resolved"
    /\ last.key[1] = "election"
    /\ Len(electionData[ElectionKey(44, "g1")]) = 2
    /\ \E c \in InFlight :
          c.kind = "election" /\ c.stage = "data" /\ "g1" \in Range(c.missing)

\* The layer holds the styling function of the load with the key.
StyleOfLoad(style, key) == style.kind = key[1] /\ style.trait = key[2]

\* C28: a load writes the styling function of the layer it was invoked with
\* only; after a load resolved, that layer holds the styling function of that
\* load, whichever selection was made last.
C28_LastResolutionWins ==
    /\ [](last.outcome = "resolved" =>
            \A l \in DOMAIN getStyle :
                LayerIds(l) = last.key[3] => StyleOfLoad(getStyle[l], last.key))
    /\ [][\A l \in DOMAIN getStyle :
            getStyle'[l] # getStyle[l] =>
                /\ last'.outcome = "resolved"
                /\ LayerIds(l) = last'.key[3]
                /\ StyleOfLoad(getStyle'[l], last'.key)
      ]_vars

\* C28 witness: of two overlapping loads for the same layer with different
\* traits one has resolved, the other is still in flight, and the layer holds
\* the styling function of the one that resolved.
C28_Witness ==
    /\ last.op = "dataResolve"
    /\ last.outcome = "resolved"
    /\ \E c \in InFlight :
          /\ LayerIds(c.layer) = last.key[3]
          /\ <<c.kind, c.trait.id>> # <<last.key[1], last.key[2]>>
          /\ StyleOfLoad(getStyle[c.layer], last.key)

(***************************************************************************)
(* Claims about the styling function (checked under SpecStyle)             *)
(***************************************************************************)
\* The styling function was applied to the feature StyledId for a trait of the kind.
Styled(kind) == last.op = "getStyle" /\ last.key[1] = kind

StyledId == last.key[3][1]

\* The vote shares of the rows of the party cached for the feature g.
PartyShares(g, party) ==
    IF ElectionKey(44, g) \in DOMAIN electionData
    THEN {electionData[ElectionKey(44, g)][i].vp :
            i \in {j \in 1..Len(electionData[ElectionKey(44, g)]) :
                        electionData[ElectionKey(44, g)][j].p = party}}
    ELSE {}

\* The values of the trait cached for the feature g.
TraitValues(g, t) ==
    IF g \in DOMAIN censusData
    THEN {censusData[g][i].v : i \in {j \in 1..Len(censusData[g]) : censusData[g][j].t = t}}
    ELSE {}

\* C29: for an election trait the styling function gives a feature whose
\* cached row of the party has the vote share vp the class 0 for vp >= 0.35, 1
\* for 0.25 <= vp < 0.35, 2 for 0.15 <= vp < 0.25 and 3 for 0 <= vp < 0.15,
\* the boundaries being the fixed 0.35, 0.25, 0.15, 0.
C29_FixedBoundaries ==
    Styled("election") =>
        /\ getStyle["A"].bins = <<Num(35), Num(25), Num(15), Num(0)>>
        /\ \A vp \in PartyShares(StyledId, "Liberal") :
              last.outcome = IF vp >= 35 THEN "class0"
                             ELSE IF vp >= 25 THEN "class1"
                             ELSE IF vp >= 15 THEN "class2"
                             ELSE "class3"

C29_Witness ==
    /\ Styled("election")
    /\ PartyShares(StyledId, "Liberal") = {34}
    /\ last.outcome = "class1"

\* The styling function of the layer has a row to classify for the feature g.
HasStyleRow(style, g) ==
    IF style.kind = "election"
    THEN PartyShares(g, style.party) # {}
    ELSE TraitValues(g, style.trait) # {}

\* C30: the styling function a load installed returns the neutral style
\* exactly when the cache holds no row for the feature's id and the requested
\* trait (key absent, placeholder, rows of other parties or traits only);
\* with such a row it returns one of the 4 class colours.
C30_NeutralIffNoRow ==
    \A l \in DOMAIN getStyle :
        getStyle[l].kind # "none" =>
            \A g \in Range(LayerIds(l)) :
                LET color == ApplyStyle(getStyle[l], electionData, censusData, g)
                IN  /\ color = "#eee" <=> ~HasStyleRow(getStyle[l], g)
                    /\ HasStyleRow(getStyle[l], g) =>
                          color \in {"class0", "class1", "class2", "class3"}

(***************************************************************************)
(* Claims about the server's services (SpecServer).                        *)
(***************************************************************************)
Answered(op) == request.op = op /\ response.status # "none"

\* The target-map features whose overlap ratio inter / area is defined and at
\* least one fifth.
RatioAtLeastFifth(table, mapId) ==
    {table[i].id : i \in {j \in DOMAIN table :
        table[j].mapId = mapId /\ table[j].area > 0 /\ 5 * table[j].inter >= table[j].area}}

\* C13: the overlap-ratio selection returns exactly the target-map features
\* whose intersection with the boundary covers at least 0.20 of the feature's
\* own area: ratio 1 and ratio exactly 0.20 are included, every smaller ratio
\* is excluded.
C13_ExactOverlapSelection ==
    Answered("GetGeoJsonFromIntersect") =>
        /\ response.status = "ok"
        /\ response.value = RatioAtLeastFifth(request.table, request.mapId)

\* C14: with a candidate feature of zero area in the selection, the query
\* still succeeds (the feature is a non-match, no division fault is raised).
C14_ZeroAreaIsNonMatch ==
    (/\ Answered("GetGeoJsonFromIntersect")
     /\ \E i \in DOMAIN request.table :
           request.table[i].mapId = request.mapId /\ request.table[i].area = 0)
        => response.status = "ok"


\* The tolerance table, in ten-thousandths.
ToleranceTable(zoom) ==
    IF zoom >= 15 THEN 3
    ELSE IF zoom = 14 THEN 4
    ELSE IF zoom = 13 THEN 5
    ELSE IF zoom = 12 THEN 10
    ELSE IF zoom = 11 THEN 20
    ELSE IF zoom >= 8 THEN 100
    ELSE 1000

\* C15: GetSimplifyTolerance returns 0.0003 for zoom >= 15, 0.0004 for 14,
\* 0.0005 for 13, 0.001 for 12, 0.002 for 11, 0.01 for 8..10 and 0.1 for
\* zoom <= 7, and the tolerance never grows with the zoom.
C15_ToleranceTable ==
    Answered("GetSimplifyTolerance") =>
        /\ response.status = "ok"
        /\ response.value = ToleranceTable(request.zoom)
        /\ \A z2 \in Zooms :
              request.zoom <= z2 => response.value >= GetSimplifyTolerance(z2)

C15_Witness ==
    /\ Answered("GetSimplifyTolerance")
    /\ request.zoom = 12
    /\ response.value = 10

\* The lists the data services must refuse.
BadLists(req) ==
    \/ Len(req.geoId) = 0
    \/ Len(req.geoId) > 2000
    \/ /\ req.op = "GetCensusData"
       /\ Len(req.traitId) = 0 \/ Len(req.traitId) > 50

\* C16: GetElectionData and GetCensusData raise an argument error before any
\* query exactly when the geoId list is empty or longer than 2000, or (census)
\* the traitId list is empty or longer than 50; every other list is accepted
\* and answered by one query.
C16_RejectsBeforeQuery ==
    Answered("GetElectionData") \/ Answered("GetCensusData") =>
        IF BadLists(request)
        THEN response.status = "error" /\ response.queries = 0
        ELSE response.status = "ok" /\ response.queries = 1

C16_Witness ==
    /\ Answered("GetElectionData")
    /\ Len(request.geoId) = 2001
    /\ response.status = "error"
    /\ response.queries = 0

\* C20: every row the election data query returns has the queried election id
\* and a geoId of the queried list; every row the census data query returns
\* has a traitId of the queried list and a geoId of the queried list.
C20_OnlyMatchingRows ==
    /\ (Answered("GetElectionData") /\ response.status = "ok") =>
          \A i \in DOMAIN response.value :
              /\ response.value[i].e = request.electionId
              /\ response.value[i].g \in Range(request.geoId)
    /\ (Answered("GetCensusData") /\ response.status = "ok") =>
          \A i \in DOMAIN response.value :
              /\ response.value[i].t \in Range(request.traitId)
              /\ response.value[i].g \in Range(request.geoId)

C20_Witness ==
    /\ Answered("GetCensusData")
    /\ response.status = "ok"
    /\ request.traitId = <<2, 7>>
    /\ request.geoId = GeoIds(2)
    /\ Len(response.value) = 1


\* The allow-list, character by character.
AllowList ==
    { "A", "B", "C", "D", "E", "F", "G", "H", "I", "J", "K", "L", "M",
      "N", "O", "P", "Q", "R", "S", "T", "U", "V", "W", "X", "Y", "Z",
      "a", "b", "c", "d", "e", "f", "g", "h", "i", "j", "k", "l", "m",
      "n", "o", "p", "q", "r", "s", "t", "u", "v", "w", "x", "y", "z",
      "0", "1", "2", "3", "4", "5", "6", "7", "8", "9", ",", "(", ")",
      " " }

RECURSIVE Join(_)
\* The text of a sequence of characters.
Join(chars) == IF chars = <<>> THEN "" ELSE Head(chars) \o Join(Tail(chars))

\* C18: SanitizeWKT returns the subsequence of its input made of exactly the
\* characters of the allow-list, in their original order; sanitizing the
\* result again changes nothing.
C18_KeepsExactlyAllowed ==
    Answered("SanitizeWKT") =>
        /\ response.value = SelectSeq(request.wkt, LAMBDA c : c \in AllowList)
        /\ SanitizeWKT(response.value) = response.value

C18_Witness ==
    /\ Answered("SanitizeWKT")
    /\ request.wkt = <<"(", ";", "9">>
    /\ response.value = <<"(", "9">>

\* C19 (as stated): the injection text is sanitized to
\* POLYGON((1 1 2 2)) DROP TABLE x, without a comma.
C19_InjectionTextNoComma ==
    (Answered("SanitizeWKT") /\ request.wkt = InjectionText) =>
        Join(response.value) = "POLYGON((1 1 2 2)) DROP TABLE x"

\* C19 (amended): the injection text is sanitized to
\* POLYGON((1 1, 2 2)) DROP TABLE x: the semicolon and the dashes are
\* removed, the comma is kept.
C19_InjectionTextKeepsComma ==
    (Answered("SanitizeWKT") /\ request.wkt = InjectionText) =>
        Join(response.value) = "POLYGON((1 1, 2 2)) DROP TABLE x"

C19_Witness ==
    /\ Answered("SanitizeWKT")
    /\ request.wkt = InjectionText
    /\ Len(response.value) = Len(InjectionText) - 3


\* C17: every data fetch the cache dispatches carries at most 2000 geo ids
\* and, for census, at most 50 trait ids, whatever the size of the layer and
\* the number of active census traits.
C17_FetchWithinLimits ==
    \A call \in InFlight :
        call.stage = "data" =>
            /\ Len(call.missing) <= 2000
            /\ call.kind = "census" => Len(call.traits) <= 50

(***************************************************************************)
(* Claims about the Map component                                          *)
(***************************************************************************)
\* The cache layer of the visible polygon layer of the map, "none" without one.
VisibleLayer == IF activeLayer = 0 THEN "none" ELSE CacheLayerOf(lay[activeLayer].name)

\* C23: a data fetch is never issued for the ids of a layer that is not, at
\* that moment, the visible polygon layer of the map: whenever a step
\* dispatches getElectionData or getCensusData, the layer whose ids the fetch
\* asks for is the active layer after that step.
C23_FetchOnlyForVisibleLayer ==
    [][\A c \in BagToSet(inflight') : Dispatched(c) => VisibleLayer' = c.layer]_vars

\* No row of the server is of an id of the load's layer: every data fetch of
\* the load returns zero rows.
ZeroRows(key) ==
    IF key[1] = "election" THEN getElectionData(key[2], key[3]) = <<>>
    ELSE getCensusData(ActiveTraits, key[3]) = <<>>

\* The style the function installed on the layer gives every feature of it.
AllNeutral(layer) ==
    \A i \in 1..Len(LayerIds(layer)) :
        ApplyStyle(getStyle[layer], electionData, censusData, LayerIds(layer)[i]) = Neutral

\* C24: a data fetch that returns zero rows is not an error: when the fetch of
\* a load whose layer has no row on the server resolves, the load resolves (it
\* returns its legend) and the styling function it installed on the layer gives
\* every feature of the layer the neutral fallback style.
C24_ZeroRowsResolve ==
    (last.op = "dataResolve" /\ ZeroRows(last.key))
        => (last.outcome = "resolved"
            /\ \A l \in CacheLayers :
                (LayerIds(l) = last.key[3] /\ getStyle[l].kind = last.key[1]
                 /\ getStyle[l].trait = last.key[2]) => AllNeutral(l))

(***************************************************************************)
(* Claims about the ids of a layer                                         *)
(***************************************************************************)
\* The feature.properties.id of the features of the collection, in order.
InputIds(name, geoms) == [i \in 1..Len(geoms) |-> FeatureId(name, i)]

\* C32: addLayer appends exactly one id per feature, in collection order:
\* after addLayer(name, collection) the ids of the new layer are the sequence
\* of the ids of the features of the collection, whatever their geometry types.
C32_IdsMatchFeatures ==
    [][\A in \in AddLayerInputs :
        addLayer(in[1], in[2]) => lay'[hist'.layer].ids = InputIds(in[1], in[2])]_vars

\* A layer was built from a collection with a MultiPolygon and a feature of an
\* unsupported geometry type, and holds one id for each.
C32_Witness ==
    /\ hist.op = "addLayer"
    /\ lay[hist.layer].name = "Map-2-1-7"
    /\ lay[hist.layer].type = "polygon"
    /\ lay[hist.layer].ids = <<"g2", "g3">>

(***************************************************************************)
(* Claims about the legend                                                 *)
(***************************************************************************)
\* C31: the legend lists the bins in boundary order, always contains the first
\* bin, contains a later bin exactly when its boundary differs from the
\* boundary of the bin before it, so that no two legend entries share a
\* boundary; the legend of an election has exactly 4 entries.
C31_LegendBins ==
    (qLegend.called /\ ~qLegend.throws) =>
        LET L == qLegend.bins
        IN  /\ \A i, j \in 1..Len(L) : i < j => L[i].bin < L[j].bin
            /\ \E i \in 1..Len(L) : L[i].bin = 1
            /\ \A k \in 2..Len(qResult) :
                (\E i \in 1..Len(L) : L[i].bin = k) <=> qResult[k] # qResult[k - 1]
            /\ \A i, j \in 1..Len(L) : i # j => L[i].to # L[j].to
            /\ qPc = "electionLegend" => Len(L) = 4

(***************************************************************************)
(* Claims about the bounding box request                                   *)
(***************************************************************************)
\* C33: the bounding box + zoom request returns the features of the map that
\* intersect the box, with their geometry simplified using the tolerance of
\* the zoom, applied once over the whole result set.
C33_SimplifiedByZoom ==
    (request.op = "MapByBounds" /\ response.status = "ok") =>
        response.value = GetGeoJsonFromBoundsWithSimplify(
            EffectiveMapId(request.mapId, request.zoom), request.box, request.zoom).value

(***************************************************************************)
(* Claims about purges and fetches in flight                               *)
(***************************************************************************)
\* C35: a census fetch issued before a purge does not write into the cache
\* after the purge: when the fetch of a load that was suspended across
\* purgeCensusData resolves, the census cache is left as it is, so that every
\* row in it comes from a fetch issued after the purge.
C35_NoWriteAfterPurge ==
    [][\A call \in InFlight :
        (CensusDataResolve(call) /\ call.purgedSince) => censusData' = censusData]_vars

(***************************************************************************)
(* Claims about the requests the cache engine sends                        *)
(***************************************************************************)
\* C37: the cache engine never dispatches a request that the server rejects as
\* empty: every data fetch a step dispatches has a non-empty geoId list (so a
\* load of a layer without ids, or with no id missing, fetches nothing), and
\* every census fetch has a trait id list that contains the id of the
\* requested trait.
C37_NoEmptyRequest ==
    [][\A c \in BagToSet(inflight') :
        Dispatched(c) =>
            /\ c.missing # <<>>
            /\ c.kind = "census" => \E i \in 1..Len(c.traits) : c.traits[i] = c.trait.id
            /\ c.kind = "census" => c.traits # <<>>]_vars

\* A load of the layer without ids has resolved without a fetch while a census
\* fetch is in flight whose requested trait was added to the active traits.
C37_Witness ==
    /\ last.key[3] = <<>>
    /\ last.req = <<>>
    /\ last.outcome = "resolved"
    /\ \E c \in InFlight :
        c.stage = "data" /\ c.kind = "census" /\ c.trait.id = 2 /\ c.traits = <<1, 2>>

(***************************************************************************)
(* Claims about what the classification depends on                         *)
(***************************************************************************)
\* The cached rows whose geoId is in ids and whose trait is t.
RelevantRows(cData, t, ids) ==
    {r \in UNION {Range(cData[g]) : g \in DOMAIN cData} : r.t = t /\ r.g \in Range(ids)}

\* What loadCensusData computes on the cache cData: the boundaries and the legend.
Classified(cData, t, ids) ==
    LET values == SortDesc(CensusValues(cData, t, ids))
        bins == getQuantiles(values, 4)
    IN  [bins |-> bins, legend |-> getLegend(values, bins, TraitById(t).isRate)]

\* The layer a load of the key was given.
LayerOfKey(key) == CHOOSE l \in CacheLayers : LayerIds(l) = key[3]

\* C38: the census bin boundaries computed by loadCensusData depend only on
\* the cached rows whose geoId is in layer.ids and whose trait is the requested
\* one: the boundaries the load installed, and its legend, are those computed
\* on any cache that agrees with the cache on these rows; where the load threw,
\* it throws on any such cache.
C38_BinsDependOnLayerRows ==
    last.op = "loadCensusData" =>
        \A other \in BinCaches :
            RelevantRows(other, last.key[2], last.key[3]) = RelevantRows(censusData, last.key[2], last.key[3])
                => LET c == Classified(other, last.key[2], last.key[3])
                   IN  /\ c.legend = Classified(censusData, last.key[2], last.key[3]).legend
                       /\ c.legend.throws <=> last.outcome = "rejected"
                       /\ last.outcome = "resolved" => getStyle[LayerOfKey(last.key)].bins = c.bins

\* The load for layer B (g2) and trait 1 resolved on a cache that holds a row of
\* trait 1 for g1, which is not of the layer, and a row of trait 2 for g2.
C38_Witness ==
    /\ last.op = "loadCensusData"
    /\ last.outcome = "resolved"
    /\ last.key = LoadKey("census", 1, "B")
    /\ RelevantRows(censusData, 1, <<"g1">>) # {}
    /\ RelevantRows(censusData, 1, <<"g2">>) # {}
    /\ RelevantRows(censusData, 2, <<"g2">>) # {}

(***************************************************************************)
(* Claims about the layer shown once the requests have completed           *)
(***************************************************************************)
\* No geometry fetch and no load of the Map is suspended.
Quiescent == tasks = EmptyBag /\ inflight = EmptyBag

\* C36: once all in-flight geometry and data requests of a Map have completed,
\* its visible polygon layer is the layer named for the selected trait's map
\* and the selected boundary, whatever order the responses arrived in.  (Stated
\* for the selections whose layer was received and registered.)
C36_VisibleLayerIsSelected ==
    (/\ Quiescent
     /\ boundary # NoBoundary
     /\ mapTrait # NoTrait
     /\ findLayer(LayerNameOf(mapTrait, boundary)) # 0)
        => activeLayer = findLayer(LayerNameOf(mapTrait, boundary))

(***************************************************************************)
(* Claims about the loading flag                                           *)
(***************************************************************************)
\* C39: with two Map instances sharing the App's loading flag, the flag is
\* true in every state in which at least one Map has a data load in flight.
C39_LoadingWhileInFlight ==
    (\E i \in Maps : mapLoads[i] # EmptyBag) => loading

(***************************************************************************)
(* Claims about the viewport synchronisation                               *)
(***************************************************************************)
\* C34: two map instances of one window do not echo viewport changes: an
\* instance dispatches a viewport event only while the pointer is over it, an
\* instance applies a received event only while the pointer is not over it, and
\* a bounds change caused by applying a received event is never dispatched.
C34_NoEcho ==
    syncLast # NoDispatch =>
        /\ syncLast.over
        /\ ~syncLast.appliedOver
        /\ syncLast.cause # "received"

====
